---- MODULE Spec2Model ----
(***************************************************************************)
(* Receive-side bandwidth estimation of aiortc (src/aiortc/rate.py):       *)
(* RateCounter, InterArrival, OveruseEstimator, OveruseDetector and the    *)
(* RemoteBitrateEstimator facade that feeds every packet through them.     *)
(*                                                                         *)
(* Number representation.                                                  *)
(*  - Send timestamps.  add() forms timestamp = abs_send_time << 8, so the *)
(*    low 8 bits of every 32-bit timestamp are zero.  The model holds a    *)
(*    timestamp in units of 2^8 (its upper 24 bits); 2^32, 0x80000000,     *)
(*    group_length and TIMESTAMP_TO_MS are expressed in that unit, which   *)
(*    keeps every comparison of the source exact.                          *)
(*  - Python None is the value None (-1) for the optional non-negative     *)
(*    numbers and the record NoGroup / NoDeltas for the optional objects.  *)
(*  - The floats of the estimator and the detector are fixed-point         *)
(*    integers: a real x is held as the integer x * FP.                    *)
(***************************************************************************)
EXTENDS Integers, Sequences, FiniteSets, TLC

VARIABLES
    ssrcs,                          \* RemoteBitrateEstimator.ssrcs
    incoming_bitrate,               \* RemoteBitrateEstimator.incoming_bitrate (RateCounter)
    incoming_bitrate_initialized,   \* RemoteBitrateEstimator.incoming_bitrate_initialized
    inter_arrival,                  \* RemoteBitrateEstimator.inter_arrival (InterArrival)
    estimator,                      \* RemoteBitrateEstimator.estimator (OveruseEstimator)
    detector,                       \* RemoteBitrateEstimator.detector (OveruseDetector)
    fed,                            \* number of add() calls made on this instance
    call,                           \* the latest add() call: its arguments and what it did
    history,                        \* the add() calls of this run, oldest first
    assigned,                       \* payload sizes and arrival times of the packets put
                                    \* into current_group since that group was created
    shifted,                        \* a second InterArrival, fed the same packets with
                                    \* every send time moved by ShiftBy modulo 2^32
    direct                          \* the latest call made on one component alone
                                    \* (OveruseDetector, RateCounter) and its run

vars == <<ssrcs, incoming_bitrate, incoming_bitrate_initialized, inter_arrival,
          estimator, detector, fed, call, history, assigned, shifted, direct>>

----------------------------------------------------------------------------
(* Module constants of rate.py *)

BURST_DELTA_THRESHOLD_MS == 5
MAX_ADAPT_OFFSET_MS == 15
MIN_NUM_DELTAS == 60
DELTA_COUNTER_MAX == 1000
MIN_FRAME_PERIOD_HISTORY_LENGTH == 60
INTER_ARRIVAL_SHIFT == 26
TIMESTAMP_GROUP_LENGTH_MS == 5

\* abs_send_time << 8 (rate.py:342): the unit of the model's timestamps is 2^8
ABS_SEND_TIME_SHIFT == 8
TsUnit == 2 ^ ABS_SEND_TIME_SHIFT

\* 2^32 and 0x80000000 in timestamp units
Wrap == 2 ^ (32 - ABS_SEND_TIME_SHIFT)
HalfWrap == 2 ^ (31 - ABS_SEND_TIME_SHIFT)

\* RateCounter(1000, 8000)
WINDOW_SIZE == 1000
RATE_SCALE == 8000

None == 0 - 1

----------------------------------------------------------------------------
(* Helpers *)

Min(a, b) == IF a < b THEN a ELSE b
Max(a, b) == IF a > b THEN a ELSE b
Abs(a) == IF a < 0 THEN 0 - a ELSE a

\* Python round() of the exact quotient n / d (n >= 0, d > 0): ties go to even
RoundHalfEven(n, d) ==
    LET q == n \div d
        r == n % d
    IN  IF 2 * r < d THEN q
        ELSE IF 2 * r > d THEN q + 1
        ELSE IF q % 2 = 0 THEN q ELSE q + 1

\* aiortc.utils.uint32_add: (a + b) & 0xFFFFFFFF
uint32_add(a, b) == (a + b) % Wrap

\* aiortc.utils.uint32_gt: a is ahead of b in the modular order
uint32_gt(a, b) == ((a - b) % Wrap) < HalfWrap

\* timestamp_to_ms * timestamp_delta, as the exact fraction TsMsNum(d) / TsMsDen:
\* TIMESTAMP_TO_MS = 1000 / 2^26 per 32-bit unit, that is 1000 * 2^8 / 2^26
\* = 125 / 2^15 per timestamp unit of the model (the product is exact in a double)
TsMsNum(timestamp_delta) == timestamp_delta * (1000 \div 8)
TsMsDen == (2 ^ (INTER_ARRIVAL_SHIFT - ABS_SEND_TIME_SHIFT)) \div 8

----------------------------------------------------------------------------
(* RateCounter *)

RateBucket(count, value) == [count |-> count, value |-> value]

\* RateCounter.reset
RateCounterReset ==
    [buckets |-> [i \in 0 .. WINDOW_SIZE - 1 |-> RateBucket(0, 0)],
     origin_index |-> 0,
     origin_ms |-> None,
     total |-> RateBucket(0, 0)]

\* the loop body without `bucket.count = 0; bucket.value = 0`
EraseOldStep_BucketKept(rc) ==
    [buckets |-> rc.buckets,
     origin_index |-> (rc.origin_index + 1) % WINDOW_SIZE,
     origin_ms |-> rc.origin_ms + 1,
     total |-> RateBucket(rc.total.count - rc.buckets[rc.origin_index].count,
                          rc.total.value - rc.buckets[rc.origin_index].value)]

\* one iteration of the loop of RateCounter._erase_old
EraseOldStep(rc) ==
    LET bucket == rc.buckets[rc.origin_index]
    IN  [buckets |-> [rc.buckets EXCEPT ![rc.origin_index] = RateBucket(0, 0)],
         origin_index |-> (rc.origin_index + 1) % WINDOW_SIZE,
         origin_ms |-> rc.origin_ms + 1,
         total |-> RateBucket(rc.total.count - bucket.count,
                              rc.total.value - bucket.value)]

\* k iterations of the loop body; the run is split in halves so that a long
\* loop is evaluated on a shallow stack
RECURSIVE EraseOldLoop(_, _)
EraseOldLoop(rc, k) ==
    IF k <= 0 THEN rc
    ELSE IF k = 1 THEN EraseOldStep(rc)
    ELSE CHOOSE r \in {EraseOldLoop(h, k - (k \div 2)) :
                           h \in {EraseOldLoop(rc, k \div 2)}} : TRUE

\* the number of iterations of `while self._origin_ms < new_origin_ms`
EraseOldIterations(rc, now_ms) ==
    LET new_origin_ms == now_ms - WINDOW_SIZE + 1
    IN  Max(0, new_origin_ms - rc.origin_ms)

\* RateCounter._erase_old
erase_old(rc, now_ms) == EraseOldLoop(rc, EraseOldIterations(rc, now_ms))

\* RateCounter.add
RateCounterAdd(rc, value, now_ms) ==
    LET r1 == IF rc.origin_ms = None
              THEN [rc EXCEPT !.origin_ms = now_ms]
              ELSE erase_old(rc, now_ms)
        index == (r1.origin_index + now_ms - r1.origin_ms) % WINDOW_SIZE
    IN  [r1 EXCEPT !.buckets[index] = RateBucket(@.count + 1, @.value + value),
                   !.total = RateBucket(@.count + 1, @.value + value)]

\* rate returning a value over an active window of one millisecond as well
RateCounterRate_WindowOfOne(rc, now_ms) ==
    IF rc.origin_ms = None
    THEN [counter |-> rc, rate |-> None]
    ELSE [counter |-> erase_old(rc, now_ms),
          rate |-> IF /\ erase_old(rc, now_ms).total.count > 0
                      /\ now_ms - erase_old(rc, now_ms).origin_ms + 1 >= 1
                   THEN RoundHalfEven(RATE_SCALE * erase_old(rc, now_ms).total.value,
                                      now_ms - erase_old(rc, now_ms).origin_ms + 1)
                   ELSE None]

\* rate dividing by the whole window instead of the active window
RateCounterRate_FullWindow(rc, now_ms) ==
    IF rc.origin_ms = None
    THEN [counter |-> rc, rate |-> None]
    ELSE [counter |-> erase_old(rc, now_ms),
          rate |-> IF /\ erase_old(rc, now_ms).total.count > 0
                      /\ now_ms - erase_old(rc, now_ms).origin_ms + 1 > 1
                   THEN RoundHalfEven(RATE_SCALE * erase_old(rc, now_ms).total.value,
                                      WINDOW_SIZE)
                   ELSE None]

\* RateCounter.rate: the counter after the call and the value returned
RateCounterRate(rc, now_ms) ==
    IF rc.origin_ms = None
    THEN [counter |-> rc, rate |-> None]
    ELSE LET r1 == erase_old(rc, now_ms)
             active_window_size == now_ms - r1.origin_ms + 1
         IN  [counter |-> r1,
              rate |-> IF r1.total.count > 0 /\ active_window_size > 1
                       THEN RoundHalfEven(RATE_SCALE * r1.total.value,
                                          active_window_size)
                       ELSE None]

----------------------------------------------------------------------------
(* InterArrival *)

TimestampGroup(timestamp) ==
    [arrival_time |-> None,
     first_timestamp |-> timestamp,
     last_timestamp |-> timestamp,
     size |-> 0]

\* `current_group is None`, `previous_group is None`
NoGroup == TimestampGroup(None)

\* `deltas = None`
NoDeltas == [some |-> FALSE, timestamp |-> 0, arrival_time |-> 0, size |-> 0]

\* (TIMESTAMP_GROUP_LENGTH_MS << INTER_ARRIVAL_SHIFT) // 1000, in 32-bit units
group_length == (TIMESTAMP_GROUP_LENGTH_MS * (2 ^ INTER_ARRIVAL_SHIFT)) \div 1000

\* InterArrival.__init__
InterArrivalInit == [current_group |-> NoGroup, previous_group |-> NoGroup]

\* packet_out_of_order with > in place of >=
packet_out_of_order_Strict(ia, timestamp) ==
    LET timestamp_delta == uint32_add(timestamp, 0 - ia.current_group.first_timestamp)
    IN  timestamp_delta > HalfWrap

\* packet_out_of_order comparing the two timestamps as plain numbers
packet_out_of_order_Plain(ia, timestamp) ==
    timestamp < ia.current_group.first_timestamp

\* packet_out_of_order measured from last_timestamp
packet_out_of_order_FromLast(ia, timestamp) ==
    LET timestamp_delta == uint32_add(timestamp, 0 - ia.current_group.last_timestamp)
    IN  timestamp_delta >= HalfWrap

\* InterArrival.packet_out_of_order
packet_out_of_order(ia, timestamp) ==
    LET timestamp_delta == uint32_add(timestamp, 0 - ia.current_group.first_timestamp)
    IN  timestamp_delta >= HalfWrap

\* belongs_to_burst without the test on the arrival-time delta
belongs_to_burst_SameTimestampOnly(ia, timestamp, arrival_time) ==
    RoundHalfEven(TsMsNum(uint32_add(timestamp, 0 - ia.current_group.last_timestamp)),
                  TsMsDen) = 0

\* InterArrival.belongs_to_burst
belongs_to_burst(ia, timestamp, arrival_time) ==
    LET timestamp_delta == uint32_add(timestamp, 0 - ia.current_group.last_timestamp)
        timestamp_delta_ms == RoundHalfEven(TsMsNum(timestamp_delta), TsMsDen)
        arrival_time_delta == arrival_time - ia.current_group.arrival_time
    IN  \/ timestamp_delta_ms = 0
        \/ /\ (arrival_time_delta - timestamp_delta_ms) < 0
           /\ arrival_time_delta <= BURST_DELTA_THRESHOLD_MS

\* InterArrival.new_timestamp_group; timestamp_delta is a multiple of 2^8 in the
\* source, so timestamp_delta * 2^8 > group_length iff
\* timestamp_delta > group_length \div 2^8
new_timestamp_group(ia, timestamp, arrival_time) ==
    IF belongs_to_burst(ia, timestamp, arrival_time)
    THEN FALSE
    ELSE LET timestamp_delta ==
                 uint32_add(timestamp, 0 - ia.current_group.first_timestamp)
         IN  timestamp_delta > group_length \div TsUnit

\* InterArrivalDelta with size taken from the closed group alone
InterArrivalDelta_SizeOfGroup(current_group, previous_group) ==
    [some |-> TRUE,
     timestamp |-> uint32_add(current_group.last_timestamp,
                              0 - previous_group.last_timestamp),
     arrival_time |-> current_group.arrival_time - previous_group.arrival_time,
     size |-> current_group.size]

\* the InterArrivalDelta built when a group closes and a previous group exists
InterArrivalDelta(current_group, previous_group) ==
    [some |-> TRUE,
     timestamp |-> uint32_add(current_group.last_timestamp,
                              0 - previous_group.last_timestamp),
     arrival_time |-> current_group.arrival_time - previous_group.arrival_time,
     size |-> current_group.size - previous_group.size]

\* GroupDeltas with the groups shifted before the delta is built
GroupDeltas_ShiftFirst(ia) ==
    [some |-> TRUE,
     timestamp |-> uint32_add(ia.current_group.last_timestamp,
                              0 - ia.current_group.last_timestamp),
     arrival_time |-> ia.current_group.arrival_time - ia.current_group.arrival_time,
     size |-> ia.current_group.size - ia.current_group.size]

\* GroupDeltas guarded by current_group in place of previous_group
GroupDeltas_WrongGuard(ia) ==
    IF ia.current_group # NoGroup
    THEN [some |-> TRUE,
          timestamp |-> uint32_add(ia.current_group.last_timestamp,
                                   0 - ia.previous_group.last_timestamp),
          arrival_time |-> ia.current_group.arrival_time
                           - ia.previous_group.arrival_time,
          size |-> ia.current_group.size - ia.previous_group.size]
    ELSE NoDeltas

\* what compute_deltas returns when a new group starts: a delta of the group
\* that closes against previous_group, if there is one
GroupDeltas(ia) ==
    IF ia.previous_group # NoGroup
    THEN InterArrivalDelta(ia.current_group, ia.previous_group)
    ELSE NoDeltas

\* the two lines without `self.current_group.arrival_time = arrival_time`
AccountPacket_SizeOnly(group, arrival_time, packet_size) ==
    [group EXCEPT !.size = @ + packet_size]

\* AccountPacket assigning the size in place of adding to it
AccountPacket_Assign(group, arrival_time, packet_size) ==
    [group EXCEPT !.size = packet_size, !.arrival_time = arrival_time]

\* the accounting every accepted packet gets: size += packet_size, arrival_time
AccountPacket(group, arrival_time, packet_size) ==
    [group EXCEPT !.size = @ + packet_size, !.arrival_time = arrival_time]

\* InterArrival.compute_deltas: the InterArrival after the call, the deltas
\* returned, and the branch taken
compute_deltas(ia, timestamp, arrival_time, packet_size) ==
    IF ia.current_group = NoGroup
    THEN [inter_arrival |->
              [ia EXCEPT !.current_group =
                  AccountPacket(TimestampGroup(timestamp), arrival_time, packet_size)],
          deltas |-> NoDeltas,
          branch |-> "first"]
    ELSE IF packet_out_of_order(ia, timestamp)
    THEN [inter_arrival |-> ia, deltas |-> NoDeltas, branch |-> "out_of_order"]
    ELSE IF new_timestamp_group(ia, timestamp, arrival_time)
    THEN [inter_arrival |->
              [current_group |->
                   AccountPacket(TimestampGroup(timestamp), arrival_time, packet_size),
               previous_group |-> ia.current_group],
          deltas |-> GroupDeltas(ia),
          branch |-> "new_group"]
    ELSE [inter_arrival |->
              [ia EXCEPT !.current_group =
                  AccountPacket(
                      IF uint32_gt(timestamp, ia.current_group.last_timestamp)
                      THEN [ia.current_group EXCEPT !.last_timestamp = timestamp]
                      ELSE ia.current_group,
                      arrival_time, packet_size)],
          deltas |-> NoDeltas,
          branch |-> "same_group"]

----------------------------------------------------------------------------
(* Fixed-point arithmetic for the floats of the estimator and the detector.  *)
(* FP = FPRoot^2 units per 1.0; products and quotients are rounded down to a *)
(* whole unit, and are computed in pieces that stay inside 32 bits.          *)

FPRoot == 10 * 10
FP == FPRoot * FPRoot

\* x * FP for an integer x
Fx(x) == x * FP

\* floor(a * b / FP)
FMul(a, b) ==
    LET ah == a \div FPRoot
        al == a % FPRoot
        bh == b \div FPRoot
        bl == b % FPRoot
    IN  ah * bh + ((ah * bl + al * bh + ((al * bl) \div FPRoot)) \div FPRoot)

\* floor(a * FP / b) for b > 0, by long division, one decimal digit at a time
RECURSIVE FDivDigits(_, _, _, _)
FDivDigits(q, r, b, unit) ==
    IF unit = FP THEN q
    ELSE FDivDigits(q * 10 + ((r * 10) \div b), (r * 10) % b, b, unit * 10)

FDiv(a, b) == FDivDigits(a \div b, a % b, b, 1)

\* floor(sqrt(n)) for 0 <= n < hi * hi, by bisection on [lo, hi)
RECURSIVE ISqrtIn(_, _, _)
ISqrtIn(n, lo, hi) ==
    IF hi - lo <= 1 THEN lo
    ELSE LET mid == (lo + hi) \div 2
         IN  IF mid * mid <= n THEN ISqrtIn(n, mid, hi) ELSE ISqrtIn(n, lo, mid)

\* math.sqrt(x): sqrt(x / FP) * FP = sqrt(x * FPRoot) * (FPRoot / 10)
FSqrt(x) == ISqrtIn(x * FPRoot, 0, 46341) * (FPRoot \div 10)

\* p ^ n for an integer n >= 0, by repeated squaring
RECURSIVE FPow(_, _)
FPow(p, n) ==
    IF n = 0 THEN FP
    ELSE IF n = 1 THEN p
    ELSE LET h == FPow(p, n \div 2)
         IN  FMul(FMul(h, h), IF n % 2 = 1 THEN p ELSE FP)

----------------------------------------------------------------------------
(* OveruseEstimator *)

NORMAL == "NORMAL"
UNDERUSING == "UNDERUSING"
OVERUSING == "OVERUSING"
BandwidthUsage == {NORMAL, UNDERUSING, OVERUSING}

\* a 2 x 2 matrix [[e00, e01], [e10, e11]], indexed from 0 as in the source
Matrix(e00, e01, e10, e11) ==
    (0 :> (0 :> e00 @@ 1 :> e01)) @@ (1 :> (0 :> e10 @@ 1 :> e11))

\* process_noise = [1e-13, 1e-3]; 1e-13 is below one fixed-point unit
process_noise == (0 :> 0) @@ (1 :> (FP \div 1000))

\* OveruseEstimator.__init__
OveruseEstimatorInit ==
    [E |-> Matrix(Fx(100), 0, 0, FP \div 10),
     num_of_deltas |-> 0,
     offset |-> 0,
     previous_offset |-> 0,
     slope |-> FP \div 64,
     ts_delta_hist |-> <<>>,
     avg_noise |-> 0,
     var_noise |-> Fx(50)]

\* CountDelta without the cap
CountDelta_Unbounded(num_of_deltas) == num_of_deltas + 1

\* self._num_of_deltas = min(self._num_of_deltas + 1, DELTA_COUNTER_MAX)
CountDelta(num_of_deltas) == Min(num_of_deltas + 1, DELTA_COUNTER_MAX)

\* the result of `for old in s: m = min(old, m)`: the least of m and the entries
SeqMin(s, m) ==
    LET all == {s[i] : i \in 1 .. Len(s)} \cup {m}
    IN  CHOOSE least \in all : \A x \in all : least <= x

\* update_min_frame_period taking the minimum before the oldest entry is popped
update_min_frame_period_MinBeforePop(ts_delta_hist, ts_delta) ==
    [ts_delta_hist |->
         Append(IF Len(ts_delta_hist) >= MIN_FRAME_PERIOD_HISTORY_LENGTH
                THEN Tail(ts_delta_hist) ELSE ts_delta_hist, ts_delta),
     min_frame_period |-> SeqMin(ts_delta_hist, ts_delta)]

\* OveruseEstimator.update_min_frame_period: the history after the call and
\* the value returned
update_min_frame_period(ts_delta_hist, ts_delta) ==
    LET popped == IF Len(ts_delta_hist) >= MIN_FRAME_PERIOD_HISTORY_LENGTH
                  THEN Tail(ts_delta_hist)
                  ELSE ts_delta_hist
    IN  [ts_delta_hist |-> Append(popped, ts_delta),
         min_frame_period |-> SeqMin(popped, ts_delta)]

\* beta = pow(1 - alpha, ts_delta * 30.0 / 1000.0) = pow(1 - alpha, 0.03) ^ ts_delta
\* with pow(0.99, 0.03) = 0.9997 and pow(0.998, 0.03) = 0.9999 to four places
NoiseBeta(num_of_deltas, ts_delta) ==
    FPow(IF num_of_deltas > 10 * 30 THEN FP - 1 ELSE FP - 3, ts_delta)

\* the assignments without `if self.var_noise < 1: self.var_noise = 1`
NoiseAssigned_NoFloor(est, avg_noise, var_noise) ==
    [est EXCEPT !.avg_noise = avg_noise, !.var_noise = var_noise]

\* update_noise_estimate, the assignments to avg_noise and var_noise with the
\* floor of 1 on var_noise
NoiseAssigned(est, avg_noise, var_noise) ==
    [est EXCEPT !.avg_noise = avg_noise,
                !.var_noise = IF var_noise < Fx(1) THEN Fx(1) ELSE var_noise]

\* update_noise_estimate once beta is known
NoiseWithBeta(est, residual, beta, avg_noise) ==
    NoiseAssigned(est, avg_noise,
                  FMul(beta, est.var_noise)
                  + FMul(FP - beta, FMul(avg_noise - residual, avg_noise - residual)))

\* the new avg_noise: beta * avg_noise + (1 - beta) * residual
AvgNoise(est, residual, beta) ==
    FMul(beta, est.avg_noise) + FMul(FP - beta, residual)

\* OveruseEstimator.update_noise_estimate: avg_noise and var_noise after the call
update_noise_estimate(est, residual, ts_delta) ==
    NoiseWithBeta(est, residual, NoiseBeta(est.num_of_deltas, ts_delta),
                  AvgNoise(est, residual, NoiseBeta(est.num_of_deltas, ts_delta)))

\* update, `self.E[0][0] += ...; self.E[1][1] += ...`: E with the process noise
PredictedE(est, current_hypothesis) ==
    Matrix(est.E[0][0] + process_noise[0],
           est.E[0][1],
           est.E[1][0],
           est.E[1][1] + process_noise[1]
               + (IF \/ (current_hypothesis = OVERUSING
                         /\ est.offset < est.previous_offset)
                     \/ (current_hypothesis = UNDERUSING
                         /\ est.offset > est.previous_offset)
                  THEN 10 * process_noise[1] ELSE 0))

\* update, Eh = E * h for h = [fs_delta, 1.0]
Eh(E, fs_delta) ==
    (0 :> (E[0][0] * fs_delta + E[0][1])) @@ (1 :> (E[1][0] * fs_delta + E[1][1]))

\* update, residual = t_ts_delta - slope * h[0] - offset
Residual(est, t_ts_delta, fs_delta) ==
    Fx(t_ts_delta) - est.slope * fs_delta - est.offset

\* update, the residual limited to max_residual on either side
ClampedResidual(residual, max_residual) ==
    IF Abs(residual) < max_residual THEN residual
    ELSE IF residual < 0 THEN 0 - max_residual
    ELSE max_residual

\* update, `if current_hypothesis == BandwidthUsage.NORMAL`: the noise estimate
\* is updated only then, with the residual limited to 3 * sqrt(var_noise)
NoiseEstimate(est, residual, min_frame_period, current_hypothesis) ==
    IF current_hypothesis = NORMAL
    THEN update_noise_estimate(est,
                               ClampedResidual(residual, 3 * FSqrt(est.var_noise)),
                               min_frame_period)
    ELSE est

\* update, K = [Eh[0] / denom, Eh[1] / denom]
KalmanGain(Eh_, denom) ==
    (0 :> FDiv(Eh_[0], denom)) @@ (1 :> FDiv(Eh_[1], denom))

\* update, IKh = I - K * h
IKh(K, fs_delta) ==
    Matrix(FP - K[0] * fs_delta, 0 - K[0], 0 - K[1] * fs_delta, FP - K[1])

\* update, the four assignments to E
UpdatedE(E, IKh_) ==
    Matrix(FMul(E[0][0], IKh_[0][0]) + FMul(E[1][0], IKh_[0][1]),
           FMul(E[0][1], IKh_[0][0]) + FMul(E[1][1], IKh_[0][1]),
           FMul(E[0][0], IKh_[1][0]) + FMul(E[1][0], IKh_[1][1]),
           FMul(E[0][1], IKh_[1][0]) + FMul(E[1][1], IKh_[1][1]))

\* update, `# update state`: the fields of the estimator after the call
UpdateState(est, mfp, E, residual, fs_delta, noise, K) ==
    [E |-> UpdatedE(E, IKh(K, fs_delta)),
     num_of_deltas |-> noise.num_of_deltas,
     offset |-> est.offset + FMul(K[1], residual),
     previous_offset |-> est.offset,
     slope |-> est.slope + FMul(K[0], residual),
     ts_delta_hist |-> mfp.ts_delta_hist,
     avg_noise |-> noise.avg_noise,
     var_noise |-> noise.var_noise]

\* update from the Kalman gain on: denom = var_noise + h[0] * Eh[0] + h[1] * Eh[1]
UpdateGain(est, mfp, E, residual, fs_delta, Eh_, noise) ==
    UpdateState(est, mfp, E, residual, fs_delta, noise,
                KalmanGain(Eh_, noise.var_noise + fs_delta * Eh_[0] + Eh_[1]))

\* update from the noise estimate on
UpdateFilter(est, mfp, E, residual, fs_delta, current_hypothesis) ==
    UpdateGain(est, mfp, E, residual, fs_delta, Eh(E, fs_delta),
               NoiseEstimate([est EXCEPT !.num_of_deltas = CountDelta(@)],
                             residual, mfp.min_frame_period, current_hypothesis))

\* OveruseEstimator.update
OveruseEstimatorUpdate(est, time_delta_ms, timestamp_delta_ms, size_delta, current_hypothesis, now_ms) ==
    UpdateFilter(est,
                 update_min_frame_period(est.ts_delta_hist, timestamp_delta_ms),
                 PredictedE(est, current_hypothesis),
                 Residual(est, time_delta_ms - timestamp_delta_ms, size_delta),
                 size_delta,
                 current_hypothesis)

----------------------------------------------------------------------------
(* OveruseDetector *)

\* k_up = 0.0087, k_down = 0.039, overuse_time_threshold = 10, threshold = 12.5
k_up == (87 * FP) \div 10000
k_down == (390 * FP) \div 10000
overuse_time_threshold == Fx(10)

\* OveruseDetector.__init__
OveruseDetectorInit ==
    [hypothesis |-> NORMAL,
     last_update_ms |-> None,
     overuse_counter |-> 0,
     overuse_time |-> None,
     previous_offset |-> 0,
     threshold |-> (125 * FP) \div 10]

\* the threshold after `self.threshold += k * (abs(modified_offset) -
\* self.threshold) * time_delta_ms` with gain k, before it is clamped
Adapted(det, modified_offset, now_ms, k) ==
    det.threshold
    + FMul(k * Min(now_ms - (IF det.last_update_ms = None THEN now_ms
                             ELSE det.last_update_ms), 100),
           Abs(modified_offset) - det.threshold)

\* update_threshold without the clamp to [6, 600]
update_threshold_Unclamped(det, modified_offset, now_ms) ==
    IF Abs(modified_offset) > det.threshold + Fx(MAX_ADAPT_OFFSET_MS)
    THEN [det EXCEPT !.last_update_ms = now_ms]
    ELSE [det EXCEPT !.threshold =
                         Adapted(det, modified_offset, now_ms,
                                 IF Abs(modified_offset) < det.threshold
                                 THEN k_down ELSE k_up),
                     !.last_update_ms = now_ms]

\* update_threshold adapting the threshold beyond the 15 ms guard as well
update_threshold_Unguarded(det, modified_offset, now_ms) ==
    [det EXCEPT !.threshold =
                    Max(Fx(6), Min(Adapted(det, modified_offset, now_ms,
                                           IF Abs(modified_offset) < det.threshold
                                           THEN k_down ELSE k_up),
                                   Fx(600))),
                !.last_update_ms = now_ms]

\* update_threshold with the two gains exchanged
update_threshold_GainsSwapped(det, modified_offset, now_ms) ==
    IF Abs(modified_offset) > det.threshold + Fx(MAX_ADAPT_OFFSET_MS)
    THEN [det EXCEPT !.last_update_ms = now_ms]
    ELSE [det EXCEPT !.threshold =
                         Max(Fx(6), Min(Adapted(det, modified_offset, now_ms,
                                                IF Abs(modified_offset) < det.threshold
                                                THEN k_up ELSE k_down),
                                        Fx(600))),
                     !.last_update_ms = now_ms]

\* OveruseDetector.update_threshold
update_threshold(det, modified_offset, now_ms) ==
    LET last_update_ms == IF det.last_update_ms = None THEN now_ms
                          ELSE det.last_update_ms
    IN  IF Abs(modified_offset) > det.threshold + Fx(MAX_ADAPT_OFFSET_MS)
        THEN [det EXCEPT !.last_update_ms = now_ms]
        ELSE LET k == IF Abs(modified_offset) < det.threshold THEN k_down ELSE k_up
                 time_delta_ms == Min(now_ms - last_update_ms, 100)
                 threshold == det.threshold
                              + FMul(k * time_delta_ms,
                                     Abs(modified_offset) - det.threshold)
             IN  [det EXCEPT !.threshold = Max(Fx(6), Min(threshold, Fx(600))),
                             !.last_update_ms = now_ms]

\* detect_update without the test overuse_counter > 1
detect_update_NoCounterCheck(det, offset, timestamp_delta_ms, num_of_deltas, now_ms) ==
    LET T == Min(num_of_deltas, MIN_NUM_DELTAS) * offset
        d1 == IF T > det.threshold
              THEN LET overuse_time ==
                           IF det.overuse_time = None
                           THEN Fx(timestamp_delta_ms) \div 2
                           ELSE det.overuse_time + Fx(timestamp_delta_ms)
                       overuse_counter == det.overuse_counter + 1
                   IN  IF /\ overuse_time > overuse_time_threshold
                          /\ offset >= det.previous_offset
                       THEN [det EXCEPT !.overuse_counter = 0,
                                        !.overuse_time = 0,
                                        !.hypothesis = OVERUSING]
                       ELSE [det EXCEPT !.overuse_counter = overuse_counter,
                                        !.overuse_time = overuse_time]
              ELSE IF T < 0 - det.threshold
              THEN [det EXCEPT !.overuse_counter = 0,
                               !.overuse_time = None,
                               !.hypothesis = UNDERUSING]
              ELSE [det EXCEPT !.overuse_counter = 0,
                               !.overuse_time = None,
                               !.hypothesis = NORMAL]
    IN  update_threshold([d1 EXCEPT !.previous_offset = offset], T, now_ms)

\* detect_update leaving overuse_counter and overuse_time alone when T < -threshold
detect_update_UnderKeepsOveruse(det, offset, timestamp_delta_ms, num_of_deltas, now_ms) ==
    LET T == Min(num_of_deltas, MIN_NUM_DELTAS) * offset
        d1 == IF T > det.threshold
              THEN LET overuse_time ==
                           IF det.overuse_time = None
                           THEN Fx(timestamp_delta_ms) \div 2
                           ELSE det.overuse_time + Fx(timestamp_delta_ms)
                       overuse_counter == det.overuse_counter + 1
                   IN  IF /\ overuse_time > overuse_time_threshold
                          /\ overuse_counter > 1
                          /\ offset >= det.previous_offset
                       THEN [det EXCEPT !.overuse_counter = 0,
                                        !.overuse_time = 0,
                                        !.hypothesis = OVERUSING]
                       ELSE [det EXCEPT !.overuse_counter = overuse_counter,
                                        !.overuse_time = overuse_time]
              ELSE IF T < 0 - det.threshold
              THEN [det EXCEPT !.hypothesis = UNDERUSING]
              ELSE [det EXCEPT !.overuse_counter = 0,
                               !.overuse_time = None,
                               !.hypothesis = NORMAL]
    IN  update_threshold([d1 EXCEPT !.previous_offset = offset], T, now_ms)

\* OveruseDetector.detect after its early return: the comparison of T with the
\* threshold, previous_offset and update_threshold
detect_update(det, offset, timestamp_delta_ms, num_of_deltas, now_ms) ==
    LET T == Min(num_of_deltas, MIN_NUM_DELTAS) * offset
        d1 == IF T > det.threshold
              THEN LET overuse_time ==
                           IF det.overuse_time = None
                           THEN Fx(timestamp_delta_ms) \div 2
                           ELSE det.overuse_time + Fx(timestamp_delta_ms)
                       overuse_counter == det.overuse_counter + 1
                   IN  IF /\ overuse_time > overuse_time_threshold
                          /\ overuse_counter > 1
                          /\ offset >= det.previous_offset
                       THEN [det EXCEPT !.overuse_counter = 0,
                                        !.overuse_time = 0,
                                        !.hypothesis = OVERUSING]
                       ELSE [det EXCEPT !.overuse_counter = overuse_counter,
                                        !.overuse_time = overuse_time]
              ELSE IF T < 0 - det.threshold
              THEN [det EXCEPT !.overuse_counter = 0,
                               !.overuse_time = None,
                               !.hypothesis = UNDERUSING]
              ELSE [det EXCEPT !.overuse_counter = 0,
                               !.overuse_time = None,
                               !.hypothesis = NORMAL]
    IN  update_threshold([d1 EXCEPT !.previous_offset = offset], T, now_ms)

\* detect returning early only for num_of_deltas < 1
detect_EarlyReturnOffByOne(det, offset, timestamp_delta_ms, num_of_deltas, now_ms) ==
    IF num_of_deltas < 1
    THEN det
    ELSE detect_update(det, offset, timestamp_delta_ms, num_of_deltas, now_ms)

\* OveruseDetector.detect: the detector after the call
detect(det, offset, timestamp_delta_ms, num_of_deltas, now_ms) ==
    IF num_of_deltas < 2
    THEN det
    ELSE detect_update(det, offset, timestamp_delta_ms, num_of_deltas, now_ms)

\* what OveruseDetector.detect returns: NORMAL on the early return, the
\* hypothesis it has set otherwise
detect_returns(det, offset, timestamp_delta_ms, num_of_deltas, now_ms) ==
    IF num_of_deltas < 2
    THEN NORMAL
    ELSE detect(det, offset, timestamp_delta_ms, num_of_deltas, now_ms).hypothesis

\* OveruseDetector.state
DetectorState(det) == det.hypothesis

----------------------------------------------------------------------------
(* RemoteBitrateEstimator *)

\* the ssrc values of the packets fed
Ssrcs == {1, 2}

\* RemoteBitrateEstimator.__init__
RemoteBitrateEstimatorInit ==
    [ssrcs |-> [s \in Ssrcs |-> None],
     incoming_bitrate |-> RateCounterReset,
     incoming_bitrate_initialized |-> TRUE,
     inter_arrival |-> InterArrivalInit,
     estimator |-> OveruseEstimatorInit,
     detector |-> OveruseDetectorInit]

\* the housekeeping without `self.incoming_bitrate_initialized = False`
UpdateIncomingBitrate_FlagKept(rc, initialized, payload_size, arrival_time_ms) ==
    [incoming_bitrate |->
         RateCounterAdd(IF RateCounterRate(rc, arrival_time_ms).rate = None /\ initialized
                        THEN RateCounterReset
                        ELSE RateCounterRate(rc, arrival_time_ms).counter,
                        payload_size, arrival_time_ms),
     incoming_bitrate_initialized |->
         IF RateCounterRate(rc, arrival_time_ms).rate # None THEN TRUE ELSE initialized,
     rate |-> RateCounterRate(rc, arrival_time_ms).rate,
     reset |-> RateCounterRate(rc, arrival_time_ms).rate = None /\ initialized]

\* the housekeeping resetting whenever rate() returns none, whatever the flag
UpdateIncomingBitrate_ResetAlways(rc, initialized, payload_size, arrival_time_ms) ==
    [incoming_bitrate |->
         RateCounterAdd(IF RateCounterRate(rc, arrival_time_ms).rate = None
                        THEN RateCounterReset
                        ELSE RateCounterRate(rc, arrival_time_ms).counter,
                        payload_size, arrival_time_ms),
     incoming_bitrate_initialized |->
         IF RateCounterRate(rc, arrival_time_ms).rate # None THEN TRUE ELSE FALSE,
     rate |-> RateCounterRate(rc, arrival_time_ms).rate,
     reset |-> RateCounterRate(rc, arrival_time_ms).rate = None]

\* add, "update incoming bitrate": the counter and the flag after it, with the
\* value rate() returned and whether the counter was reset
UpdateIncomingBitrate(rc, initialized, payload_size, arrival_time_ms) ==
    LET r == RateCounterRate(rc, arrival_time_ms)
        reset == r.rate = None /\ initialized
        counter == IF reset THEN RateCounterReset ELSE r.counter
    IN  [incoming_bitrate |-> RateCounterAdd(counter, payload_size, arrival_time_ms),
         incoming_bitrate_initialized |->
             IF r.rate # None THEN TRUE
             ELSE IF initialized THEN FALSE ELSE initialized,
         rate |-> r.rate,
         reset |-> reset]

\* int(deltas.timestamp * TIMESTAMP_TO_MS)
TimestampDeltaMs(deltas) == TsMsNum(deltas.timestamp) \div TsMsDen

\* EstimateAndDetect with the detector run before the estimator
EstimateAndDetect_DetectFirst(est, det, deltas, arrival_time_ms) ==
    [estimator |->
         OveruseEstimatorUpdate(est, deltas.arrival_time,
             TimestampDeltaMs(deltas), deltas.size,
             DetectorState(detect(det, est.offset, TimestampDeltaMs(deltas),
                                  est.num_of_deltas, arrival_time_ms)),
             arrival_time_ms),
     detector |-> detect(det, est.offset, TimestampDeltaMs(deltas),
                         est.num_of_deltas, arrival_time_ms),
     current_hypothesis |->
         DetectorState(detect(det, est.offset, TimestampDeltaMs(deltas),
                              est.num_of_deltas, arrival_time_ms))]

\* add, `self.detector.detect(...)`: detect on what the estimator now holds
DetectAfterUpdate(det, estimator1, timestamp_delta_ms, arrival_time_ms) ==
    [estimator |-> estimator1,
     detector |-> detect(det, estimator1.offset, timestamp_delta_ms,
                         estimator1.num_of_deltas, arrival_time_ms),
     current_hypothesis |-> DetectorState(det)]

\* add, the body of `if deltas is not None`: estimator.update with the state of
\* the detector, then detector.detect with what the estimator now holds
EstimateAndDetect(est, det, deltas, arrival_time_ms) ==
    DetectAfterUpdate(det,
                      OveruseEstimatorUpdate(est, deltas.arrival_time,
                          TimestampDeltaMs(deltas), deltas.size,
                          DetectorState(det), arrival_time_ms),
                      TimestampDeltaMs(deltas), arrival_time_ms)

\* add: the fields of the instance after the call, and for the record of the
\* call what its steps returned
AddOutcome(self, arrival_time_ms, abs_send_time, payload_size, ssrc, ib, cd, ed) ==
    [ssrcs |-> [self.ssrcs EXCEPT ![ssrc] = arrival_time_ms],
     incoming_bitrate |-> ib.incoming_bitrate,
     incoming_bitrate_initialized |-> ib.incoming_bitrate_initialized,
     inter_arrival |-> cd.inter_arrival,
     estimator |-> ed.estimator,
     detector |-> ed.detector,
     call |-> [arrival_time_ms |-> arrival_time_ms,
               abs_send_time |-> abs_send_time,
               payload_size |-> payload_size,
               ssrc |-> ssrc,
               rate |-> ib.rate,
               reset |-> ib.reset,
               branch |-> cd.branch,
               deltas |-> cd.deltas,
               current_hypothesis |-> ed.current_hypothesis]]

\* add from `if deltas is not None` on
AddDeltas(self, arrival_time_ms, abs_send_time, payload_size, ssrc, ib, cd) ==
    AddOutcome(self, arrival_time_ms, abs_send_time, payload_size, ssrc, ib, cd,
               IF cd.deltas.some
               THEN EstimateAndDetect(self.estimator, self.detector, cd.deltas,
                                      arrival_time_ms)
               ELSE [estimator |-> self.estimator, detector |-> self.detector,
                     current_hypothesis |-> "none"])

\* RemoteBitrateEstimator.add; abs_send_time << 8 is abs_send_time in the
\* timestamp units of this module
RemoteBitrateEstimatorAdd(self, arrival_time_ms, abs_send_time, payload_size, ssrc) ==
    AddDeltas(self, arrival_time_ms, abs_send_time, payload_size, ssrc,
              UpdateIncomingBitrate(self.incoming_bitrate,
                  self.incoming_bitrate_initialized, payload_size, arrival_time_ms),
              compute_deltas(self.inter_arrival, abs_send_time, arrival_time_ms,
                             payload_size))

----------------------------------------------------------------------------
(* The caller: the packets fed to add() *)

\* add() calls explored from each initial state
MaxPackets == 4

\* packets of the steady stream an instance in service has already been fed
WarmPackets == 1000

\* a send time of ms milliseconds in units of abs_send_time (2^18 per second),
\* rounded up to a whole unit
SendMs(ms) == (ms * (2 ^ 18) + 999) \div 1000

\* A packet is chosen relative to the instance: its send time as an offset from
\* the first timestamp of the current group, its arrival time as a step from
\* the arrival time of the packet before it.
Packet(offset, step, size, ssrc) ==
    [offset |-> offset, step |-> step, payload_size |-> size, ssrc |-> ssrc]

PacketKinds ==
    { Packet(0, 0, 1, 1),                   \* the group's first send time again
      Packet(SendMs(3), 9, 2, 1),           \* 3 ms on, inside the 5 ms group
      Packet(SendMs(6), 6, 1, 1),           \* 6 ms on, arriving 6 ms later
      Packet(SendMs(6), 2, 1, 2),           \* 6 ms on, arriving 2 ms later
      Packet(SendMs(12), 40, 2, 1),         \* 12 ms on, arriving 40 ms later
      Packet(SendMs(100), 7, 1, 2),         \* 100 ms on, arriving 7 ms later
      Packet(HalfWrap, 1, 1, 1),            \* first_timestamp + 2^31
      Packet(Wrap - SendMs(1), 1, 2, 1) }   \* 1 ms before first_timestamp

\* the send time of the first packet of an instance: the stream wraps 2^32
\* within its first packets
FirstSendTime == Wrap - SendMs(8)

\* how far the send times fed to `shifted` are moved
ShiftBy == SendMs(16)

NoCall ==
    [arrival_time_ms |-> 0, abs_send_time |-> 0, payload_size |-> 0, ssrc |-> 0,
     rate |-> None, reset |-> FALSE, branch |-> "none", deltas |-> NoDeltas,
     current_hypothesis |-> "none"]

\* the state at construction
Fresh ==
    [ssrcs |-> RemoteBitrateEstimatorInit.ssrcs,
     incoming_bitrate |-> RemoteBitrateEstimatorInit.incoming_bitrate,
     incoming_bitrate_initialized |->
         RemoteBitrateEstimatorInit.incoming_bitrate_initialized,
     inter_arrival |-> RemoteBitrateEstimatorInit.inter_arrival,
     estimator |-> RemoteBitrateEstimatorInit.estimator,
     detector |-> RemoteBitrateEstimatorInit.detector,
     fed |-> 0,
     call |-> NoCall,
     history |-> <<>>,
     assigned |-> <<>>,
     shifted |-> [inter_arrival |-> InterArrivalInit, deltas |-> NoDeltas,
                  branch |-> "none", plain_delta |-> 0]]

\* compute_deltas on the second InterArrival, with the difference of the last
\* timestamps of the two groups of a delta taken without the modulus
ShiftedStep(sh, abs_send_time, arrival_time_ms, payload_size) ==
    LET cd == compute_deltas(sh.inter_arrival, (abs_send_time + ShiftBy) % Wrap,
                             arrival_time_ms, payload_size)
    IN  [inter_arrival |-> cd.inter_arrival,
         deltas |-> cd.deltas,
         branch |-> cd.branch,
         plain_delta |-> IF cd.deltas.some
                         THEN sh.inter_arrival.current_group.last_timestamp
                              - sh.inter_arrival.previous_group.last_timestamp
                         ELSE 0]

\* the instance and the record of the run after an add() call that returned r
Stepped(st, r, sh) ==
    [ssrcs |-> r.ssrcs,
     incoming_bitrate |-> r.incoming_bitrate,
     incoming_bitrate_initialized |-> r.incoming_bitrate_initialized,
     inter_arrival |-> r.inter_arrival,
     estimator |-> r.estimator,
     detector |-> r.detector,
     fed |-> st.fed + 1,
     call |-> r.call,
     history |-> Append(st.history,
                        [abs_send_time |-> r.call.abs_send_time,
                         arrival_time_ms |-> r.call.arrival_time_ms,
                         payload_size |-> r.call.payload_size,
                         branch |-> r.call.branch,
                         emitted |-> r.call.deltas.some,
                         rate |-> r.call.rate,
                         reset |-> r.call.reset]),
     assigned |-> IF r.call.branch \in {"first", "new_group"}
                  THEN <<[payload_size |-> r.call.payload_size,
                          arrival_time |-> r.call.arrival_time_ms]>>
                  ELSE IF r.call.branch = "same_group"
                  THEN Append(st.assigned,
                              [payload_size |-> r.call.payload_size,
                               arrival_time |-> r.call.arrival_time_ms])
                  ELSE st.assigned,
     shifted |-> sh]

\* one add() call on the instance in state st
Step(st, arrival_time_ms, abs_send_time, payload_size, ssrc) ==
    Stepped(st,
            RemoteBitrateEstimatorAdd(st, arrival_time_ms, abs_send_time,
                                      payload_size, ssrc),
            ShiftedStep(st.shifted, abs_send_time, arrival_time_ms, payload_size))

\* the packet of kind k for the instance in state st
SendTimeOf(st, k) ==
    IF st.inter_arrival.current_group = NoGroup
    THEN FirstSendTime
    ELSE (st.inter_arrival.current_group.first_timestamp + k.offset) % Wrap

ArrivalTimeOf(st, k) == st.call.arrival_time_ms + k.step

\* the steady stream: packet i is sent 6 ms after packet i - 1 and arrives 6 ms
\* after it; the last one is sent SendMs(3) before the timestamp wraps
SteadySendTime(i) ==
    (Wrap - SendMs(3) - (WarmPackets - 1 - i) * SendMs(6)) % Wrap

RECURSIVE FeedSteady(_, _, _)
FeedSteady(st, i, k) ==
    IF k <= 0 THEN st
    ELSE IF k = 1 THEN Step(st, i * 6, SteadySendTime(i), 1, 1)
    ELSE CHOOSE r \in {FeedSteady(h, i + (k \div 2), k - (k \div 2)) :
                           h \in {FeedSteady(st, i, k \div 2)}} : TRUE

\* an instance in service: the state after the steady stream, at the start of
\* the run explored
Warm == [FeedSteady(Fresh, 0, WarmPackets) EXCEPT !.history = <<>>]

Current ==
    [ssrcs |-> ssrcs,
     incoming_bitrate |-> incoming_bitrate,
     incoming_bitrate_initialized |-> incoming_bitrate_initialized,
     inter_arrival |-> inter_arrival,
     estimator |-> estimator,
     detector |-> detector,
     fed |-> fed,
     call |-> call,
     history |-> history,
     assigned |-> assigned,
     shifted |-> shifted]

Holds(st) ==
    /\ ssrcs = st.ssrcs
    /\ incoming_bitrate = st.incoming_bitrate
    /\ incoming_bitrate_initialized = st.incoming_bitrate_initialized
    /\ inter_arrival = st.inter_arrival
    /\ estimator = st.estimator
    /\ detector = st.detector
    /\ fed = st.fed
    /\ call = st.call
    /\ history = st.history
    /\ assigned = st.assigned
    /\ shifted = st.shifted

\* no call has been made on a component alone
NoDirect ==
    [op |-> "none", calls |-> 0, now_ms |-> 0, num_of_deltas |-> 0, offset |-> 0,
     timestamp_delta_ms |-> 0, T |-> 0, threshold |-> 0, samples |-> <<>>,
     rate |-> None, ts_deltas |-> <<>>, min_frame_period |-> 0]

Init ==
    /\ \E st \in {Fresh, Warm} : Holds(st)
    /\ direct = NoDirect

\* a caller feeds one packet to add()
Add ==
    /\ Len(history) < MaxPackets
    /\ \E k \in PacketKinds :
         \E st \in {Step(Current, ArrivalTimeOf(Current, k), SendTimeOf(Current, k),
                         k.payload_size, k.ssrc)} :
            /\ ssrcs' = st.ssrcs
            /\ incoming_bitrate' = st.incoming_bitrate
            /\ incoming_bitrate_initialized' = st.incoming_bitrate_initialized
            /\ inter_arrival' = st.inter_arrival
            /\ estimator' = st.estimator
            /\ detector' = st.detector
            /\ fed' = st.fed
            /\ call' = st.call
            /\ history' = st.history
            /\ assigned' = st.assigned
            /\ shifted' = st.shifted
    /\ UNCHANGED direct

Next == Add

Spec == Init /\ [][Next]_vars

----------------------------------------------------------------------------
(* Properties *)

\* the run explored started from a fresh instance: history holds every call
FreshRun == fed = Len(history)

\* how many of the calls in h returned a delta
DeltasEmitted(h) == Cardinality({i \in 1 .. Len(h) : h[i].emitted})

\* the send time of call j of h, measured from the send time of call i
SendSpan(h, i, j) == (h[j].abs_send_time - h[i].abs_send_time) % Wrap

\* the step is an add() call whose packet is out of order for the current group
OutOfOrderAdd ==
    /\ fed' = fed + 1
    /\ inter_arrival.current_group # NoGroup
    /\ (call'.abs_send_time - inter_arrival.current_group.first_timestamp) % Wrap
           >= HalfWrap

\* C1: the hypothesis is always one of the three BandwidthUsage values, and
\* while fewer than 2 deltas have been counted the detector is as constructed:
\* hypothesis NORMAL and no field changed by detect. Called with num_of_deltas
\* below 2 on the detector of any state, detect returns NORMAL and changes no
\* field.
C1_NormalBelowTwoDeltas ==
    /\ detector.hypothesis \in BandwidthUsage
    /\ DetectorState(detector) = detector.hypothesis
    /\ estimator.num_of_deltas < 2 =>
           /\ detector.hypothesis = NORMAL
           /\ detector = OveruseDetectorInit
    /\ \A n \in {0, 1} :
           /\ detect(detector, estimator.offset, TIMESTAMP_GROUP_LENGTH_MS, n,
                     call.arrival_time_ms + 1) = detector
           /\ detect_returns(detector, estimator.offset, TIMESTAMP_GROUP_LENGTH_MS,
                             n, call.arrival_time_ms + 1) = NORMAL

\* detect has been called with num_of_deltas = 1 and left the detector alone
C1_Witness ==
    /\ call.deltas.some
    /\ estimator.num_of_deltas = 1
    /\ detector = OveruseDetectorInit

\* C2: a packet whose timestamp lies 2^31 or more (mod 2^32) from
\* current_group.first_timestamp is out of order for compute_deltas: the call
\* returns no delta and leaves both groups as they were.
C2_OutOfOrderIgnored ==
    [][OutOfOrderAdd =>
          /\ call'.branch = "out_of_order"
          /\ call'.deltas = NoDeltas
          /\ inter_arrival' = inter_arrival]_vars

\* a packet exactly 2^31 after first_timestamp has been ignored
C2_Witness ==
    /\ call.branch = "out_of_order"
    /\ inter_arrival.current_group # NoGroup
    /\ (call.abs_send_time - inter_arrival.current_group.first_timestamp) % Wrap
           = HalfWrap

\* C3: timestamp arithmetic is modular. The same packets with every send time
\* moved by ShiftBy (mod 2^32) take the same branch of compute_deltas and give
\* the same delta, and the timestamp of a delta is the plain difference of the
\* moved timestamps wherever those do not wrap.
C3_ModularTimestamps ==
    /\ call.branch = shifted.branch
    /\ call.deltas = shifted.deltas
    /\ call.deltas.some =>
           /\ call.deltas.timestamp < HalfWrap
           /\ shifted.plain_delta >= 0 =>
                  call.deltas.timestamp = shifted.plain_delta

\* a delta has been returned for two groups with the 2^32 wrap between their
\* last timestamps
C3_Witness ==
    /\ call.deltas.some
    /\ inter_arrival.previous_group.last_timestamp < call.deltas.timestamp
    /\ shifted.plain_delta = call.deltas.timestamp

\* three packets have been fed to a fresh instance, in send order, the third
\* sent 6 ms after the first, the arrival times advancing by the same 6 ms
ThreePacketsSpanningSixMs ==
    /\ FreshRun
    /\ Len(history) = 3
    /\ SendSpan(history, 1, 3) = SendMs(6)
    /\ SendSpan(history, 1, 2) <= SendMs(6)
    /\ history[3].arrival_time_ms - history[1].arrival_time_ms = 6
    /\ history[2].arrival_time_ms >= history[1].arrival_time_ms
    /\ history[2].arrival_time_ms <= history[3].arrival_time_ms

\* C4 as stated: three packets whose send timestamps span 6 ms produce exactly
\* one delta.
C4_AsStated == ThreePacketsSpanningSixMs => DeltasEmitted(history) = 1

\* C4: the first three packets of an instance produce at most one delta, and
\* exactly one precisely when the second and the third each start a new
\* timestamp group; three packets whose send timestamps span 6 ms produce none.
C4_ThreePackets ==
    /\ (FreshRun /\ Len(history) = 3) =>
           /\ DeltasEmitted(history) <= 1
           /\ DeltasEmitted(history) = 1 <=>
                  /\ history[2].branch = "new_group"
                  /\ history[3].branch = "new_group"
           /\ history[3].emitted = (DeltasEmitted(history) = 1)
    /\ ThreePacketsSpanningSixMs => DeltasEmitted(history) = 0

\* three packets spanning 6 ms, the second of them closing the first group
C4_Witness ==
    /\ ThreePacketsSpanningSixMs
    /\ history[2].branch = "new_group"
    /\ DeltasEmitted(history) = 0

\* C5 as stated: a delta is returned exactly when a packet starts a new
\* timestamp group.
C5_AsStated == call.deltas.some <=> call.branch = "new_group"

\* C5: a delta is returned exactly when a packet starts a new timestamp group
\* while a previous group exists; it holds the differences of last_timestamp
\* (mod 2^32), arrival_time and size between the group that closes and the
\* previous group, and the group that closes becomes previous_group.
C5_DeltaOnGroupClose ==
    [][fed' = fed + 1 =>
          /\ call'.deltas.some <=>
                 /\ call'.branch = "new_group"
                 /\ inter_arrival.previous_group # NoGroup
          /\ call'.deltas.some =>
                 /\ call'.deltas.timestamp =
                        (inter_arrival.current_group.last_timestamp
                         - inter_arrival.previous_group.last_timestamp) % Wrap
                 /\ call'.deltas.arrival_time =
                        inter_arrival.current_group.arrival_time
                        - inter_arrival.previous_group.arrival_time
                 /\ call'.deltas.size =
                        inter_arrival.current_group.size
                        - inter_arrival.previous_group.size
          /\ call'.branch = "new_group" =>
                 /\ inter_arrival'.previous_group = inter_arrival.current_group
                 /\ inter_arrival'.current_group.first_timestamp
                        = call'.abs_send_time]_vars

\* a packet has started a new group and a delta of groups of different sizes
\* has been returned
C5_Witness ==
    /\ call.branch = "new_group"
    /\ call.deltas.some
    /\ call.deltas.size # 0
    /\ inter_arrival.previous_group.size # call.deltas.size

\* C6: the first packet of an instance returns no delta, and neither does the
\* second, whether it joins the first packet's group or closes it.
C6_NoDeltaFromTwoPackets ==
    (FreshRun /\ Len(history) <= 2) => DeltasEmitted(history) = 0

\* two packets within one 5 ms group have been fed to a fresh instance
C6_Witness ==
    /\ FreshRun
    /\ Len(history) = 2
    /\ SendSpan(history, 1, 2) <= group_length \div TsUnit
    /\ history[1].branch = "first"
    /\ history[2].branch = "same_group"
    /\ inter_arrival.previous_group = NoGroup

\* the sum of the payload sizes of the packets in s
SumSizes(s) ==
    LET F[i \in 0 .. Len(s)] == IF i = 0 THEN 0 ELSE F[i - 1] + s[i].payload_size
    IN  F[Len(s)]

\* C7: a packet whose send timestamp equals current_group.last_timestamp joins
\* the current group whatever its arrival time and returns no delta, so a fresh
\* instance fed only packets of one send timestamp returns no delta at all; and
\* in every state current_group.size is the sum of the payload sizes of the
\* packets assigned to the group since it was created and
\* current_group.arrival_time is the arrival time of the latest of them.
C7_BurstCoalescing ==
    /\ [](/\ inter_arrival.current_group # NoGroup =>
                /\ Len(assigned) >= 1
                /\ inter_arrival.current_group.size = SumSizes(assigned)
                /\ inter_arrival.current_group.arrival_time
                       = assigned[Len(assigned)].arrival_time
          /\ (/\ FreshRun
              /\ \A i \in 1 .. Len(history) :
                     history[i].abs_send_time = history[1].abs_send_time)
                 => DeltasEmitted(history) = 0)
    /\ [][(/\ fed' = fed + 1
           /\ inter_arrival.current_group # NoGroup
           /\ call'.abs_send_time = inter_arrival.current_group.last_timestamp)
          => /\ call'.branch = "same_group"
             /\ call'.deltas = NoDeltas
             /\ inter_arrival'.previous_group = inter_arrival.previous_group
             /\ inter_arrival'.current_group.first_timestamp
                    = inter_arrival.current_group.first_timestamp
             /\ inter_arrival'.current_group.size
                    = inter_arrival.current_group.size + call'.payload_size
             /\ assigned' = Append(assigned,
                                   [payload_size |-> call'.payload_size,
                                    arrival_time |-> call'.arrival_time_ms])]_vars

\* a third packet has joined the group of a packet of the same send timestamp
\* that arrived 9 ms before it
C7_Witness ==
    /\ call.branch = "same_group"
    /\ Len(assigned) >= 3
    /\ Len(history) >= 2
    /\ history[Len(history) - 1].abs_send_time = call.abs_send_time
    /\ call.arrival_time_ms - history[Len(history) - 1].arrival_time_ms
           > BURST_DELTA_THRESHOLD_MS
    /\ inter_arrival.current_group.size = SumSizes(assigned)

\* C8 as stated: an add() of an out-of-order packet changes no state of the
\* RemoteBitrateEstimator at all.
C8_AsStated ==
    [][OutOfOrderAdd =>
          UNCHANGED <<ssrcs, incoming_bitrate, incoming_bitrate_initialized,
                      inter_arrival, estimator, detector>>]_vars

\* C8: an add() of an out-of-order packet leaves inter_arrival, estimator and
\* detector as they were; ssrcs and the incoming bitrate counter, updated
\* before the inter-arrival filter sees the packet, do record it.
C8_OutOfOrderAdd ==
    [][OutOfOrderAdd =>
          /\ call'.branch = "out_of_order"
          /\ UNCHANGED <<inter_arrival, estimator, detector>>
          /\ ssrcs' = [ssrcs EXCEPT ![call'.ssrc] = call'.arrival_time_ms]
          /\ incoming_bitrate' # incoming_bitrate
          /\ incoming_bitrate'.total.count >= 1
          /\ incoming_bitrate'.total.value >= call'.payload_size]_vars

\* an out-of-order packet has come third or later, after groups have closed
\* and the estimator has run
C8_Witness ==
    /\ call.branch = "out_of_order"
    /\ fed >= 3
    /\ inter_arrival.previous_group # NoGroup
    /\ estimator.num_of_deltas >= 1
    /\ ssrcs[call.ssrc] = call.arrival_time_ms

\* C9: on an add() that yields a delta, OveruseEstimator.update gets the
\* hypothesis the detector held before the call, and OveruseDetector.detect
\* then runs on the detector of before the call with the offset and
\* num_of_deltas that update has produced.
C9_EstimatorBeforeDetector ==
    [][(fed' = fed + 1 /\ call'.deltas.some) =>
          LET timestamp_delta_ms == TimestampDeltaMs(call'.deltas)
          IN  /\ call'.current_hypothesis = detector.hypothesis
              /\ estimator' = OveruseEstimatorUpdate(estimator,
                                  call'.deltas.arrival_time, timestamp_delta_ms,
                                  call'.deltas.size, detector.hypothesis,
                                  call'.arrival_time_ms)
              /\ detector' = detect(detector, estimator'.offset,
                                    timestamp_delta_ms, estimator'.num_of_deltas,
                                    call'.arrival_time_ms)]_vars

\* a delta has moved the detector to a new hypothesis: the estimator ran with
\* the one of before
C9_Witness ==
    /\ call.deltas.some
    /\ call.current_hypothesis \in BandwidthUsage
    /\ call.current_hypothesis # detector.hypothesis
    /\ detector.previous_offset = estimator.offset

\* C10: num_of_deltas never decreases and never exceeds 1000. An add() that
\* yields a delta raises it by one, up to 1000 where it stays; an add() that
\* yields no delta leaves the estimator and the detector as they were.
C10_NumOfDeltas ==
    [][fed' = fed + 1 =>
          /\ estimator'.num_of_deltas >= estimator.num_of_deltas
          /\ estimator'.num_of_deltas <= DELTA_COUNTER_MAX
          /\ call'.deltas.some =>
                 estimator'.num_of_deltas =
                     IF estimator.num_of_deltas < DELTA_COUNTER_MAX
                     THEN estimator.num_of_deltas + 1
                     ELSE DELTA_COUNTER_MAX
          /\ ~call'.deltas.some => UNCHANGED <<estimator, detector>>]_vars

\* the count has reached 1000 and a further delta has left it there
C10_Witness ==
    /\ call.deltas.some
    /\ estimator.num_of_deltas = DELTA_COUNTER_MAX
    /\ fed > Len(history)
    /\ DeltasEmitted(history) >= 3

----------------------------------------------------------------------------
(* OveruseDetector alone: detect() called as add() calls it, once per delta  *)
(* with the count of deltas so far, on offsets chosen freely                 *)

\* detect() calls explored from each initial detector
MaxDetects == 4

\* detect() calls a detector under sustained overuse has already had
HotDetects == 45

\* A detect() call is chosen relative to the detector: T aims at
\* scale * threshold + plus (in ms), now_ms is dt after the call before, and
\* timestamp_delta_ms is as given.
DetectKind(scale, plus, dt, timestamp_delta_ms) ==
    [scale |-> scale, plus |-> plus, dt |-> dt,
     timestamp_delta_ms |-> timestamp_delta_ms]

DetectKinds ==
    { DetectKind(0, 0, 100, 6),             \* T = 0
      DetectKind(1, 0, 10, 6),              \* T at the threshold
      DetectKind(1, 1, 10, 6),              \* T just above the threshold
      DetectKind(1, 15, 100, 30),           \* T at threshold + 15
      DetectKind(1, 16, 100, 6),            \* T beyond threshold + 15
      DetectKind(0 - 1, 0, 10, 6),          \* T at -threshold
      DetectKind(0 - 1, 0 - 1, 100, 6),     \* T just below -threshold
      DetectKind(0 - 1, 0 - 16, 5, 6) }     \* T beyond -(threshold + 15)

\* the offset that brings T = min(num_of_deltas, 60) * offset to the aim of
\* kind k, as near as a whole multiple allows (never beyond it)
OffsetOf(det, k, num_of_deltas) ==
    (IF k.scale * det.threshold + Fx(k.plus) < 0 THEN 0 - 1 ELSE 1)
    * (Abs(k.scale * det.threshold + Fx(k.plus))
       \div Min(num_of_deltas, MIN_NUM_DELTAS))

\* the detector after detect() and the record of that call
Detected(ds, offset, timestamp_delta_ms, num_of_deltas, now_ms) ==
    [detector |-> detect(ds.detector, offset, timestamp_delta_ms, num_of_deltas,
                         now_ms),
     direct |-> [NoDirect EXCEPT
                    !.op = "detect",
                    !.calls = ds.direct.calls + 1,
                    !.now_ms = now_ms,
                    !.num_of_deltas = num_of_deltas,
                    !.offset = offset,
                    !.timestamp_delta_ms = timestamp_delta_ms,
                    !.T = Min(num_of_deltas, MIN_NUM_DELTAS) * offset,
                    !.threshold = ds.detector.threshold]]

\* one detect() call of kind k, for the next delta
DetectStep(ds, k) ==
    Detected(ds,
             OffsetOf(ds.detector, k, CountDelta(ds.direct.num_of_deltas)),
             k.timestamp_delta_ms,
             CountDelta(ds.direct.num_of_deltas),
             ds.direct.now_ms + k.dt)

\* a detector as constructed
FreshDetector == [detector |-> OveruseDetectorInit, direct |-> NoDirect]

\* a detector whose every delta so far has come with T at threshold + 15
RECURSIVE FeedRising(_, _)
FeedRising(ds, n) ==
    IF n <= 0 THEN ds
    ELSE CHOOSE r \in {DetectStep(h, DetectKind(1, 15, 100, 30)) :
                           h \in {FeedRising(ds, n - 1)}} : TRUE

HotDetector == FeedRising(FreshDetector, HotDetects)

DetectorInit ==
    \E ds \in {FreshDetector, [HotDetector EXCEPT !.direct.calls = 0]} :
       /\ Holds([Fresh EXCEPT !.detector = ds.detector])
       /\ direct = ds.direct

Detect ==
    /\ direct.calls < MaxDetects
    /\ \E k \in DetectKinds :
         \E ds \in {DetectStep([detector |-> detector, direct |-> direct], k)} :
            /\ detector' = ds.detector
            /\ direct' = ds.direct
    /\ UNCHANGED <<ssrcs, incoming_bitrate, incoming_bitrate_initialized,
                   inter_arrival, estimator, fed, call, history, assigned,
                   shifted>>

DetectorNext == Detect

DetectorSpec == DetectorInit /\ [][DetectorNext]_vars

\* the step is a detect() call that got past the early return
DetectCall ==
    /\ direct'.calls = direct.calls + 1
    /\ direct'.op = "detect"
    /\ direct'.num_of_deltas >= 2

\* C11: the threshold is 12.5 at construction and lies in [6, 600] in every
\* state, whatever offsets and times detect has been called with.
C11_ThresholdBounded ==
    /\ detector.threshold >= Fx(6)
    /\ detector.threshold <= Fx(600)
    /\ direct.op = "none" => detector.threshold = (125 * FP) \div 10

\* a detect() call has raised the threshold to the upper bound
C11_Witness ==
    /\ direct.op = "detect"
    /\ direct.calls >= 1
    /\ direct.threshold < Fx(600)
    /\ detector.threshold = Fx(600)

\* C12: when |modified_offset| > threshold + 15, update_threshold leaves the
\* threshold (and every other field) as it was and sets last_update_ms to
\* now_ms.
C12_GuardedThreshold ==
    [][(DetectCall /\ Abs(direct'.T) > detector.threshold + Fx(MAX_ADAPT_OFFSET_MS))
          => /\ detector'.threshold = detector.threshold
             /\ detector'.last_update_ms = direct'.now_ms
             /\ update_threshold(detector, direct'.T, direct'.now_ms)
                    = [detector EXCEPT !.last_update_ms = direct'.now_ms]]_vars

\* a detect() call some time after the one before it has come with T beyond
\* threshold + 15 and the threshold is as before
C12_Witness ==
    /\ direct.op = "detect"
    /\ direct.calls >= 2
    /\ direct.num_of_deltas >= 3
    /\ Abs(direct.T) > direct.threshold + Fx(MAX_ADAPT_OFFSET_MS)
    /\ detector.threshold = direct.threshold
    /\ detector.last_update_ms = direct.now_ms

\* C17: detect() with num_of_deltas >= 2 and T = min(num_of_deltas, 60) * offset:
\* for -threshold <= T <= threshold the hypothesis becomes NORMAL, for
\* T < -threshold UNDERUSING, both with overuse_counter 0 and overuse_time
\* unset; for T > threshold the hypothesis stays or becomes OVERUSING; in all
\* three cases previous_offset is the offset passed in.
C17_DetectTransitions ==
    [][DetectCall =>
          /\ detector'.previous_offset = direct'.offset
          /\ direct'.T = Min(direct'.num_of_deltas, MIN_NUM_DELTAS) * direct'.offset
          /\ (direct'.T >= 0 - detector.threshold /\ direct'.T <= detector.threshold)
                 => /\ detector'.hypothesis = NORMAL
                    /\ detector'.overuse_counter = 0
                    /\ detector'.overuse_time = None
          /\ direct'.T < 0 - detector.threshold
                 => /\ detector'.hypothesis = UNDERUSING
                    /\ detector'.overuse_counter = 0
                    /\ detector'.overuse_time = None
          /\ direct'.T > detector.threshold
                 => detector'.hypothesis \in {detector.hypothesis, OVERUSING}]_vars

\* after calls with T above the threshold, a call with T below -threshold has
\* made the hypothesis UNDERUSING
C17_Witness ==
    /\ direct.op = "detect"
    /\ direct.calls >= 2
    /\ direct.num_of_deltas >= 2
    /\ direct.T < 0 - direct.threshold
    /\ detector.hypothesis = UNDERUSING
    /\ detector.overuse_counter = 0
    /\ detector.overuse_time = None
    /\ detector.previous_offset = direct.offset

\* the overuse_time detect() compares with the 10 ms limit when T > threshold
AccumulatedOveruseTime(det, timestamp_delta_ms) ==
    IF det.overuse_time = None
    THEN Fx(timestamp_delta_ms) \div 2
    ELSE det.overuse_time + Fx(timestamp_delta_ms)

\* C18: the hypothesis turns OVERUSING only in a detect() call with
\* T > threshold, accumulated overuse_time above 10 ms, overuse_counter > 1 and
\* offset >= previous_offset, hence only when the detect() call before it (with
\* num_of_deltas >= 2) had T > threshold as well; and a detector fed from
\* construction is not OVERUSING before its third delta.
C18_OverusingOnlyWhenSustained ==
    /\ []((direct.num_of_deltas = direct.calls /\ detector.hypothesis = OVERUSING)
              => direct.num_of_deltas >= 3)
    /\ [][(/\ direct'.calls = direct.calls + 1
           /\ detector.hypothesis # OVERUSING
           /\ detector'.hypothesis = OVERUSING)
          => /\ direct'.num_of_deltas >= 2
             /\ direct'.T > detector.threshold
             /\ AccumulatedOveruseTime(detector, direct'.timestamp_delta_ms)
                    > overuse_time_threshold
             /\ detector.overuse_counter + 1 > 1
             /\ direct'.offset >= detector.previous_offset
             /\ direct.num_of_deltas >= 2
             /\ direct.T > direct.threshold]_vars

\* a detector fed from construction has turned OVERUSING at its third delta
C18_Witness ==
    /\ direct.op = "detect"
    /\ direct.num_of_deltas = direct.calls
    /\ direct.num_of_deltas = 3
    /\ detector.hypothesis = OVERUSING
    /\ direct.T > direct.threshold

\* distances between |modified_offset| and the threshold, and elapsed times
Distances == {1, Fx(1), Fx(5), Fx(MAX_ADAPT_OFFSET_MS)}
ElapsedTimes == {1, 10, 100, 500}

\* how far update_threshold raises the threshold for |modified_offset| = threshold + d
\* and how far it lowers it for |modified_offset| = threshold - d
UpStep(d, dt) ==
    update_threshold(detector, detector.threshold + d,
                     detector.last_update_ms + dt).threshold
    - detector.threshold

DownStep(d, dt) ==
    detector.threshold
    - update_threshold(detector, detector.threshold - d,
                       detector.last_update_ms + dt).threshold

\* both steps are taken from a detector that has a last_update_ms, stay within
\* the 15 ms guard and end strictly inside the clamp [6, 600]
Comparable(d, dt) ==
    /\ detector.last_update_ms # None
    /\ d <= detector.threshold
    /\ detector.threshold + UpStep(d, dt) < Fx(600)
    /\ detector.threshold - DownStep(d, dt) > Fx(6)

\* C19 as stated: the upward step is larger than the downward step.
C19_AsStated ==
    \A d \in Distances : \A dt \in ElapsedTimes :
        Comparable(d, dt) => UpStep(d, dt) > DownStep(d, dt)

\* C19: for the same elapsed time and the same distance between
\* |modified_offset| and the threshold, the downward step (gain k_down = 0.039)
\* is larger than the upward step (gain k_up = 0.0087): the threshold falls
\* faster than it rises.
C19_FallsFasterThanRises ==
    /\ k_down > k_up
    /\ \A d \in Distances : \A dt \in ElapsedTimes :
           Comparable(d, dt) =>
               /\ UpStep(d, dt) >= 0
               /\ DownStep(d, dt) > UpStep(d, dt)

\* a detector from which a step of 5 ms over 100 ms goes both ways unclamped
C19_Witness ==
    /\ direct.op = "detect"
    /\ direct.calls >= 1
    /\ Comparable(Fx(5), 100)
    /\ UpStep(Fx(5), 100) > 0
    /\ DownStep(Fx(5), 100) > UpStep(Fx(5), 100)

----------------------------------------------------------------------------
(* RateCounter alone: add, rate and reset calls at non-decreasing times;
   direct.samples lists the samples added since the last reset *)

MaxCounterCalls == 4

CounterKind(op, dt, value) == [op |-> op, dt |-> dt, value |-> value]

\* the calls: the time passed since the call before, and the value added
CounterKinds ==
    { CounterKind("add", 0, 100), CounterKind("add", 1, 1200),
      CounterKind("add", WINDOW_SIZE - 1, 1200),
      CounterKind("rate", 0, 0), CounterKind("rate", WINDOW_SIZE - 1, 0),
      CounterKind("rate", WINDOW_SIZE + 500, 0) }

Sample(at, value) == [at |-> at, value |-> value]

CounterCalled(op, now_ms, samples, rate) ==
    [NoDirect EXCEPT !.op = op, !.calls = direct.calls + 1, !.now_ms = now_ms,
                     !.samples = samples, !.rate = rate]

CounterInit ==
    /\ Holds(Fresh)
    /\ direct = NoDirect

CounterAdd ==
    /\ direct.calls < MaxCounterCalls
    /\ \E k \in {c \in CounterKinds : c.op = "add"} :
          /\ incoming_bitrate' =
                 RateCounterAdd(incoming_bitrate, k.value, direct.now_ms + k.dt)
          /\ direct' = CounterCalled("add", direct.now_ms + k.dt,
                           Append(direct.samples, Sample(direct.now_ms + k.dt, k.value)),
                           None)
    /\ UNCHANGED <<ssrcs, incoming_bitrate_initialized, inter_arrival, estimator,
                   detector, fed, call, history, assigned, shifted>>

CounterRate ==
    /\ direct.calls < MaxCounterCalls
    /\ \E k \in {c \in CounterKinds : c.op = "rate"} :
          /\ incoming_bitrate' =
                 RateCounterRate(incoming_bitrate, direct.now_ms + k.dt).counter
          /\ direct' = CounterCalled("rate", direct.now_ms + k.dt, direct.samples,
                           RateCounterRate(incoming_bitrate, direct.now_ms + k.dt).rate)
    /\ UNCHANGED <<ssrcs, incoming_bitrate_initialized, inter_arrival, estimator,
                   detector, fed, call, history, assigned, shifted>>

\* reset, called as RemoteBitrateEstimator.add calls it: after a rate() that
\* returned no value
CounterReset ==
    /\ direct.calls < MaxCounterCalls
    /\ direct.op = "rate"
    /\ direct.rate = None
    /\ incoming_bitrate' = RateCounterReset
    /\ direct' = CounterCalled("reset", direct.now_ms, <<>>, None)
    /\ UNCHANGED <<ssrcs, incoming_bitrate_initialized, inter_arrival, estimator,
                   detector, fed, call, history, assigned, shifted>>

CounterNext == CounterAdd \/ CounterRate \/ CounterReset

CounterSpec == CounterInit /\ [][CounterNext]_vars

\* the samples added at a time in lo .. hi
SamplesIn(lo, hi) ==
    {i \in 1 .. Len(direct.samples) : direct.samples[i].at >= lo /\ direct.samples[i].at <= hi}

RECURSIVE SumValues(_)
SumValues(I) ==
    IF I = {} THEN 0
    ELSE LET i == CHOOSE j \in I : TRUE
         IN  direct.samples[i].value + SumValues(I \ {i})

\* the sum of the payload sizes added in the last window before direct.now_ms
WindowSum ==
    SumValues(SamplesIn(direct.now_ms - WINDOW_SIZE + 1, direct.now_ms))

\* C13 as stated: rate / scale * window_ms is the sum of the sizes added in the
\* last window_ms, give or take the samples of the 1 ms bucket at either edge of
\* the window and the rounding (compared after multiplying by scale / window_ms).
C13_AsStated ==
    (direct.op = "rate" /\ direct.rate # None) =>
        \E lo \in {direct.now_ms - WINDOW_SIZE, direct.now_ms - WINDOW_SIZE + 1,
                   direct.now_ms - WINDOW_SIZE + 2} :
            Abs(direct.rate
                - (RATE_SCALE \div WINDOW_SIZE) * SumValues(SamplesIn(lo, direct.now_ms)))
                <= RATE_SCALE \div WINDOW_SIZE

\* C13: whenever rate(t) returns a value, rate(t) / scale * active_window_ms is
\* the sum of the sizes added in the last window_ms before t, up to the rounding
\* of rate(t), where active_window_ms = t - origin_ms + 1 is between 2 and
\* window_ms; it is window_ms only once the counter has run for a whole window.
C13_RateOverActiveWindow ==
    (direct.op = "rate" /\ direct.rate # None) =>
        /\ direct.now_ms - incoming_bitrate.origin_ms + 1 >= 2
        /\ direct.now_ms - incoming_bitrate.origin_ms + 1 <= WINDOW_SIZE
        /\ 2 * Abs(direct.rate * (direct.now_ms - incoming_bitrate.origin_ms + 1)
                   - RATE_SCALE * WindowSum)
               <= direct.now_ms - incoming_bitrate.origin_ms + 1

\* rate() has returned a value over an active window shorter than the window
C13_Witness ==
    /\ direct.op = "rate"
    /\ direct.rate # None
    /\ Len(direct.samples) >= 2
    /\ direct.now_ms - incoming_bitrate.origin_ms + 1 < WINDOW_SIZE
    /\ direct.rate > (RATE_SCALE \div WINDOW_SIZE) * WindowSum

\* the sum of count, and of value, over the buckets lo .. hi
RECURSIVE BucketCounts(_, _)
BucketCounts(lo, hi) ==
    IF lo > hi THEN 0
    ELSE IF lo = hi THEN incoming_bitrate.buckets[lo].count
    ELSE BucketCounts(lo, (lo + hi) \div 2) + BucketCounts((lo + hi) \div 2 + 1, hi)

RECURSIVE BucketValues(_, _)
BucketValues(lo, hi) ==
    IF lo > hi THEN 0
    ELSE IF lo = hi THEN incoming_bitrate.buckets[lo].value
    ELSE BucketValues(lo, (lo + hi) \div 2) + BucketValues((lo + hi) \div 2 + 1, hi)

\* the samples of one millisecond, as a bucket
SamplesAt(ms) == RateBucket(Cardinality(SamplesIn(ms, ms)), SumValues(SamplesIn(ms, ms)))

\* C20: after any add and rate calls at non-decreasing times, the total is the
\* sum of the buckets, the total counts exactly the samples added in
\* [now_ms - window_size + 1, now_ms], origin_ms >= now_ms - window_size + 1, and
\* the bucket at (origin_index + k) mod window_size holds the samples of
\* millisecond origin_ms + k.
C20_WindowInvariant ==
    /\ incoming_bitrate.total.count = BucketCounts(0, WINDOW_SIZE - 1)
    /\ incoming_bitrate.total.value = BucketValues(0, WINDOW_SIZE - 1)
    /\ incoming_bitrate.total.count
           = Cardinality(SamplesIn(direct.now_ms - WINDOW_SIZE + 1, direct.now_ms))
    /\ incoming_bitrate.total.value = WindowSum
    /\ incoming_bitrate.origin_ms = None =>
           /\ direct.samples = <<>>
           /\ incoming_bitrate.origin_index = 0
    /\ incoming_bitrate.origin_ms # None =>
           /\ incoming_bitrate.origin_ms >= direct.now_ms - WINDOW_SIZE + 1
           /\ incoming_bitrate.origin_ms <= direct.now_ms
           /\ incoming_bitrate.origin_index \in 0 .. WINDOW_SIZE - 1
           /\ \A k \in 0 .. WINDOW_SIZE - 1 :
                  incoming_bitrate.buckets[(incoming_bitrate.origin_index + k) % WINDOW_SIZE]
                      = SamplesAt(incoming_bitrate.origin_ms + k)

\* the origin has moved, a sample has left the window and the ring has wrapped:
\* a later sample sits in bucket 0
C20_Witness ==
    /\ direct.op = "add"
    /\ incoming_bitrate.origin_index > 0
    /\ incoming_bitrate.buckets[0].count > 0
    /\ incoming_bitrate.total.count < Len(direct.samples)
    /\ incoming_bitrate.total.count > 0

----------------------------------------------------------------------------
(* The facade on packets whose arrival times never go back *)

\* C15: with non-decreasing arrival_time_ms no add() call fails: every group
\* that belongs_to_burst and the delta computation will read has its
\* arrival_time set, the bucket index of the counter lies in [0, window_size),
\* and the active window rate() divides by is at least 1 (and more than 1
\* whenever rate() returned a value).
C15_NoCallFails ==
    /\ inter_arrival.current_group # NoGroup
           => inter_arrival.current_group.arrival_time # None
    /\ inter_arrival.previous_group # NoGroup
           => inter_arrival.previous_group.arrival_time # None
    /\ history # <<>> => inter_arrival.current_group # NoGroup
    /\ incoming_bitrate.origin_index \in 0 .. WINDOW_SIZE - 1
    /\ history # <<>> =>
           /\ incoming_bitrate.origin_ms # None
           /\ call.arrival_time_ms - incoming_bitrate.origin_ms + 1 >= 1
           /\ call.arrival_time_ms - incoming_bitrate.origin_ms + 1 <= WINDOW_SIZE
           /\ (call.arrival_time_ms - incoming_bitrate.origin_ms) % WINDOW_SIZE
                  = call.arrival_time_ms - incoming_bitrate.origin_ms
           /\ incoming_bitrate.total.count >= 1
    /\ call.rate # None =>
           /\ call.rate >= 0
           /\ call.arrival_time_ms - incoming_bitrate.origin_ms + 1 > 1
    /\ call.deltas.some => call.deltas.arrival_time >= 0

\* an add() call has closed a group, computed a delta from two groups and got
\* a rate from a counter whose origin has moved
C15_Witness ==
    /\ history # <<>>
    /\ call.deltas.some
    /\ call.rate # None
    /\ incoming_bitrate.origin_index > 0
    /\ inter_arrival.previous_group # NoGroup

----------------------------------------------------------------------------
(* OveruseEstimator alone: update() called with deltas and hypotheses of every
   sort; direct counts the calls *)

MaxUpdates == 4

UpdateKind(time_delta_ms, timestamp_delta_ms, size_delta, hypothesis) ==
    [time_delta_ms |-> time_delta_ms, timestamp_delta_ms |-> timestamp_delta_ms,
     size_delta |-> size_delta, current_hypothesis |-> hypothesis]

\* the deltas: groups 10 s apart, steady groups, a late and large group, a group
\* that arrived before the one it follows, and groups seen while over- and
\* underusing
UpdateKinds ==
    { UpdateKind(10000, 10000, 0, NORMAL), UpdateKind(6, 6, 0, NORMAL),
      UpdateKind(40, 6, 10, NORMAL), UpdateKind(0 - 4, 6, 0, NORMAL),
      UpdateKind(9, 6, 2, OVERUSING), UpdateKind(2, 30, 0 - 10, UNDERUSING) }

\* update() called with the delta k; direct records the timestamp deltas passed
\* so far and the min_frame_period of this call
Updated(es, k) ==
    [estimator |-> OveruseEstimatorUpdate(es.estimator, k.time_delta_ms,
                       k.timestamp_delta_ms, k.size_delta, k.current_hypothesis,
                       es.direct.now_ms + Max(k.time_delta_ms, 0)),
     direct |-> [NoDirect EXCEPT
                    !.op = "update",
                    !.calls = es.direct.calls + 1,
                    !.now_ms = es.direct.now_ms + Max(k.time_delta_ms, 0),
                    !.timestamp_delta_ms = k.timestamp_delta_ms,
                    !.ts_deltas = Append(es.direct.ts_deltas, k.timestamp_delta_ms),
                    !.min_frame_period =
                        update_min_frame_period(es.estimator.ts_delta_hist,
                            k.timestamp_delta_ms).min_frame_period]]

FreshEstimator == [estimator |-> OveruseEstimatorInit, direct |-> NoDirect]

\* updates an estimator with a long history has already had
HistUpdates == 58

\* the i-th of them: the first has the shortest timestamp delta of all
HistKind(i) ==
    IF i = 1 THEN UpdateKind(3, 3, 0, NORMAL)
    ELSE UpdateKind(7 + (i % 9), 7 + (i % 9), 0, NORMAL)

\* the updates i .. i + k - 1 in turn; the run is split in halves so that it
\* is evaluated on a shallow stack
RECURSIVE FeedUpdates(_, _, _)
FeedUpdates(es, i, k) ==
    IF k <= 0 THEN es
    ELSE IF k = 1 THEN Updated(es, HistKind(i))
    ELSE CHOOSE r \in {FeedUpdates(h, i + (k \div 2), k - (k \div 2)) :
                           h \in {FeedUpdates(es, i, k \div 2)}} : TRUE

\* an estimator whose history is about to fill
LongHistory == FeedUpdates(FreshEstimator, 1, HistUpdates)

EstimatorInit ==
    \E es \in {FreshEstimator,
               [estimator |-> Warm.estimator, direct |-> NoDirect],
               [LongHistory EXCEPT !.direct.calls = 0]} :
       /\ Holds([Fresh EXCEPT !.estimator = es.estimator])
       /\ direct = es.direct

Update ==
    /\ direct.calls < MaxUpdates
    /\ \E k \in UpdateKinds :
          \E es \in {Updated([estimator |-> estimator, direct |-> direct], k)} :
             /\ estimator' = es.estimator
             /\ direct' = es.direct
    /\ UNCHANGED <<ssrcs, incoming_bitrate, incoming_bitrate_initialized,
                   inter_arrival, detector, fed, call, history, assigned, shifted>>

EstimatorNext == Update

EstimatorSpec == EstimatorInit /\ [][EstimatorNext]_vars

\* C16: var_noise is 50 at construction and at least 1 after every update(),
\* whatever the hypothesis and the deltas.
C16_VarNoiseFloor ==
    /\ estimator.var_noise >= Fx(1)
    /\ (direct.op = "none" /\ estimator.num_of_deltas = 0)
           => estimator.var_noise = Fx(50)

\* updates with residuals near zero have brought var_noise down to the floor
C16_Witness ==
    /\ direct.op = "update"
    /\ direct.calls >= 2
    /\ estimator.var_noise = Fx(1)

----------------------------------------------------------------------------
(* The facade on packets whose arrival times may go back *)

\* packets in the order they were sent
InOrderKinds ==
    { Packet(SendMs(3), 9, 2, 1), Packet(SendMs(6), 6, 1, 1),
      Packet(SendMs(12), 40, 2, 1) }

\* packets that arrive with an arrival time before that of the packet fed last
LateKinds ==
    { Packet(SendMs(3), 0 - 10, 1, 1), Packet(SendMs(6), 0 - 3, 2, 2) }

AddInOrder ==
    /\ Len(history) < MaxPackets
    /\ \E k \in InOrderKinds :
          /\ ArrivalTimeOf(Current, k) >= 0
          /\ \E st \in {Step(Current, ArrivalTimeOf(Current, k),
                             SendTimeOf(Current, k), k.payload_size, k.ssrc)} :
                /\ ssrcs' = st.ssrcs
                /\ incoming_bitrate' = st.incoming_bitrate
                /\ incoming_bitrate_initialized' = st.incoming_bitrate_initialized
                /\ inter_arrival' = st.inter_arrival
                /\ estimator' = st.estimator
                /\ detector' = st.detector
                /\ fed' = st.fed
                /\ call' = st.call
                /\ history' = st.history
                /\ assigned' = st.assigned
                /\ shifted' = st.shifted
    /\ UNCHANGED direct

AddLate ==
    /\ Len(history) < MaxPackets
    /\ \E k \in LateKinds :
          /\ ArrivalTimeOf(Current, k) >= 0
          /\ \E st \in {Step(Current, ArrivalTimeOf(Current, k),
                             SendTimeOf(Current, k), k.payload_size, k.ssrc)} :
                /\ ssrcs' = st.ssrcs
                /\ incoming_bitrate' = st.incoming_bitrate
                /\ incoming_bitrate_initialized' = st.incoming_bitrate_initialized
                /\ inter_arrival' = st.inter_arrival
                /\ estimator' = st.estimator
                /\ detector' = st.detector
                /\ fed' = st.fed
                /\ call' = st.call
                /\ history' = st.history
                /\ assigned' = st.assigned
                /\ shifted' = st.shifted
    /\ UNCHANGED direct

AnyOrderNext == AddInOrder \/ AddLate

AnyOrderSpec == Init /\ [][AnyOrderNext]_vars

\* C14 as stated: whatever the order of the arrival times, no delta with a
\* negative arrival-time delta is passed to OveruseEstimator.update.
C14_AsStated ==
    call.deltas.some => call.deltas.arrival_time >= 0

----------------------------------------------------------------------------
(* RateCounter.rate and RateCounter._erase_old, under CounterSpec *)

\* C21: rate(now_ms) returns round(scale * total.value / (now_ms - origin_ms + 1)),
\* taken after the expired buckets are erased, exactly when a sample added in
\* the last window_size milliseconds remains and now_ms - origin_ms + 1 > 1; it
\* returns none when nothing was added since construction or reset, when every
\* sample has expired, and when every sample is of the millisecond now_ms.
C21_RateValue ==
    direct.op = "rate" =>
        IF /\ SamplesIn(direct.now_ms - WINDOW_SIZE + 1, direct.now_ms) # {}
           /\ direct.now_ms - incoming_bitrate.origin_ms + 1 > 1
        THEN direct.rate = RoundHalfEven(RATE_SCALE * WindowSum,
                               direct.now_ms - incoming_bitrate.origin_ms + 1)
        ELSE /\ direct.rate = None
             /\ \/ direct.samples = <<>>
                \/ SamplesIn(direct.now_ms - WINDOW_SIZE + 1, direct.now_ms) = {}
                \/ \A i \in 1 .. Len(direct.samples) :
                       direct.samples[i].at = direct.now_ms

\* rate() has returned a value after one sample expired while another remains
C21_Witness ==
    /\ direct.op = "rate"
    /\ direct.rate # None
    /\ incoming_bitrate.total.count >= 1
    /\ incoming_bitrate.total.count < Len(direct.samples)

\* rate() has returned none although a sample is counted: the sample is of the
\* millisecond of the call
RateNoneOverOneMillisecond ==
    /\ direct.op = "rate"
    /\ direct.rate = None
    /\ incoming_bitrate.total.count >= 1

\* C25 as stated: one _erase_old invocation, in add or in rate, makes at most
\* window_size loop iterations whatever the time passed since the call before.
C25_AsStated ==
    [][(direct'.calls = direct.calls + 1 /\ direct'.op \in {"add", "rate"}
           /\ incoming_bitrate.origin_ms # None)
          => EraseOldIterations(incoming_bitrate, direct'.now_ms) <= WINDOW_SIZE]_vars

----------------------------------------------------------------------------
(* OveruseEstimator.update_min_frame_period, under EstimatorSpec *)

\* the estimator has been fed from construction: direct.ts_deltas lists every
\* timestamp delta it was passed
FedFromConstruction == estimator.num_of_deltas = Len(direct.ts_deltas)

\* the last min(n, 60) of the n timestamp deltas passed in
LastDeltas ==
    SubSeq(direct.ts_deltas,
           Len(direct.ts_deltas)
               - Min(Len(direct.ts_deltas), MIN_FRAME_PERIOD_HISTORY_LENGTH) + 1,
           Len(direct.ts_deltas))

\* C26: ts_delta_hist is a FIFO of at most 60 entries: after every update it
\* holds the last min(n, 60) timestamp_delta_ms values in arrival order, and
\* the min_frame_period of that update is the least of those entries, the one
\* just pushed included and the evicted one excluded.
C26_HistoryFifo ==
    /\ Len(estimator.ts_delta_hist) <= MIN_FRAME_PERIOD_HISTORY_LENGTH
    /\ (direct.op = "update" /\ FedFromConstruction) =>
           /\ estimator.ts_delta_hist = LastDeltas
           /\ \E i \in 1 .. Len(LastDeltas) : direct.min_frame_period = LastDeltas[i]
           /\ \A i \in 1 .. Len(LastDeltas) : direct.min_frame_period <= LastDeltas[i]
    /\ direct.op = "update" =>
           estimator.ts_delta_hist[Len(estimator.ts_delta_hist)]
               = direct.timestamp_delta_ms

\* the 61st update has evicted the first and shortest timestamp delta, and the
\* min_frame_period of that update is longer than it
C26_Witness ==
    /\ direct.op = "update"
    /\ FedFromConstruction
    /\ Len(direct.ts_deltas) = MIN_FRAME_PERIOD_HISTORY_LENGTH + 1
    /\ Len(estimator.ts_delta_hist) = MIN_FRAME_PERIOD_HISTORY_LENGTH
    /\ direct.min_frame_period > direct.ts_deltas[1]

----------------------------------------------------------------------------
(* InterArrival alone: compute_deltas on packets whose arrival times never go
   back; call records the packet and what compute_deltas returned *)

MaxArrivals == 4

\* the packets: send time from the current group's first timestamp, arrival
\* time from the packet before
ArrivalKinds ==
    { Packet(SendMs(6), 0, 1, 1),             \* sent 6 ms on, same millisecond
      Packet(SendMs(6), 5, 1, 1),             \* sent 6 ms on, 5 ms later
      Packet(SendMs(6), 6, 2, 1),             \* sent 6 ms on, 6 ms later
      Packet(SendMs(12), 6, 1, 1),            \* sent 12 ms on, 6 ms later
      Packet(SendMs(3), 1, 1, 1),             \* inside the 5 ms group
      Packet(0, 0, 2, 1),                     \* the first send time again
      Packet(Wrap - SendMs(1), 1, 1, 1) }     \* sent before the group

ArrivalInit ==
    /\ \E st \in {Fresh, Warm} :
          Holds([Fresh EXCEPT !.inter_arrival = st.inter_arrival,
                              !.call = [NoCall EXCEPT !.arrival_time_ms =
                                                         st.call.arrival_time_ms]])
    /\ direct = NoDirect

Arrive ==
    /\ direct.calls < MaxArrivals
    /\ \E k \in ArrivalKinds :
          \E cd \in {compute_deltas(inter_arrival, SendTimeOf(Current, k),
                                    ArrivalTimeOf(Current, k), k.payload_size)} :
             /\ inter_arrival' = cd.inter_arrival
             /\ call' = [NoCall EXCEPT !.arrival_time_ms = ArrivalTimeOf(Current, k),
                                       !.abs_send_time = SendTimeOf(Current, k),
                                       !.payload_size = k.payload_size,
                                       !.branch = cd.branch,
                                       !.deltas = cd.deltas]
    /\ direct' = [NoDirect EXCEPT !.op = "compute_deltas",
                                  !.calls = direct.calls + 1]
    /\ UNCHANGED <<ssrcs, incoming_bitrate, incoming_bitrate_initialized, estimator,
                   detector, fed, history, assigned, shifted>>

ArrivalNext == Arrive

ArrivalSpec == ArrivalInit /\ [][ArrivalNext]_vars

\* the packet of the step arrives in the millisecond of the current group's
\* latest packet, or within 5 ms of it and sooner after it than it was sent
\* after the group's last timestamp
SameMillisecondOrCatchingUp ==
    /\ inter_arrival.current_group # NoGroup
    /\ \/ call'.arrival_time_ms = inter_arrival.current_group.arrival_time
       \/ /\ call'.arrival_time_ms - inter_arrival.current_group.arrival_time
                 <= BURST_DELTA_THRESHOLD_MS
          /\ call'.arrival_time_ms - inter_arrival.current_group.arrival_time
               < RoundHalfEven(
                     TsMsNum(uint32_add(call'.abs_send_time,
                                 0 - inter_arrival.current_group.last_timestamp)),
                     TsMsDen)

\* C24: with non-decreasing arrival times every delta returned has an
\* arrival-time delta of at least 1 ms, because a packet that arrives in the
\* millisecond of the current group's latest packet, or catches up within
\* 5 ms, is taken as part of a burst and starts no new group: a group's arrival
\* time is always later than that of the group before it.
C24_DeltaAtLeastOneMs ==
    /\ [](call.deltas.some => call.deltas.arrival_time >= 1)
    /\ [](inter_arrival.previous_group # NoGroup
             => inter_arrival.previous_group.arrival_time
                    < inter_arrival.current_group.arrival_time)
    /\ [][(direct'.calls = direct.calls + 1 /\ SameMillisecondOrCatchingUp)
             => /\ call'.branch # "new_group"
                /\ ~call'.deltas.some]_vars

\* a packet sent 6 ms on has arrived in the millisecond of the packet before and
\* joined its group, and the next packet has closed that group with a delta
C24_Witness ==
    /\ direct.op = "compute_deltas"
    /\ direct.calls >= 2
    /\ call.deltas.some
    /\ call.branch = "new_group"
    /\ inter_arrival.previous_group.size >= 2
    /\ inter_arrival.previous_group.last_timestamp
           # inter_arrival.previous_group.first_timestamp

----------------------------------------------------------------------------
(* The facade on packets that arrive after gaps of up to more than a window *)

\* packets sent 6 ms after the current group's first, arriving in the same
\* millisecond, 6 ms, one millisecond short of a window, a window, and a
\* window and a half after the packet before
GapKinds ==
    { Packet(SendMs(6), 0, 1, 1), Packet(SendMs(6), 6, 2, 1),
      Packet(SendMs(6), WINDOW_SIZE - 1, 1, 1), Packet(SendMs(6), WINDOW_SIZE, 2, 1),
      Packet(SendMs(6), WINDOW_SIZE + 500, 1, 2) }

AddAfterGap ==
    /\ Len(history) < MaxPackets
    /\ \E k \in GapKinds :
          \E st \in {Step(Current, ArrivalTimeOf(Current, k),
                          SendTimeOf(Current, k), k.payload_size, k.ssrc)} :
             /\ ssrcs' = st.ssrcs
             /\ incoming_bitrate' = st.incoming_bitrate
             /\ incoming_bitrate_initialized' = st.incoming_bitrate_initialized
             /\ inter_arrival' = st.inter_arrival
             /\ estimator' = st.estimator
             /\ detector' = st.detector
             /\ fed' = st.fed
             /\ call' = st.call
             /\ history' = st.history
             /\ assigned' = st.assigned
             /\ shifted' = st.shifted
    /\ UNCHANGED direct

GapNext == AddAfterGap

GapSpec == Init /\ [][GapNext]_vars

\* C22 as stated: the counter is reset only in a call whose rate() returned
\* none after an earlier rate() call of the instance had returned a value.
C22_AsStated ==
    (FreshRun /\ history # <<>> /\ call.reset) =>
        /\ call.rate = None
        /\ \E i \in 1 .. Len(history) - 1 : history[i].rate # None

\* call j of the run reset the counter although no rate() since the reset
\* before it had returned a value
ResetAgain(j) ==
    /\ history[j].reset
    /\ \E m \in 1 .. j - 1 :
          /\ history[m].reset
          /\ \A i \in m .. j - 1 : history[i].rate = None

\* the bucket of the millisecond of the packet just processed
BucketOfCall ==
    incoming_bitrate.buckets[(incoming_bitrate.origin_index + call.arrival_time_ms
                                  - incoming_bitrate.origin_ms) % WINDOW_SIZE]

\* C22: the counter is reset only in a call whose rate() returned none, and
\* then only if it is the first add() of the instance (the flag is set at
\* construction) or a rate() since the reset before it has returned a value;
\* once reset, it is not reset again until rate() has returned a value; and
\* the payload_size is added after the housekeeping in every case, so the
\* counter always holds the packet just processed.
C22_Housekeeping ==
    /\ \A j \in 1 .. Len(history) :
           history[j].reset =>
               /\ history[j].rate = None
               /\ ~ResetAgain(j)
               /\ FreshRun =>
                      \/ j = 1
                      \/ \E i \in 1 .. j - 1 : history[i].rate # None
    /\ (FreshRun /\ history # <<>>) => history[1].reset
    /\ call.reset => ~incoming_bitrate_initialized
    /\ call.rate # None => incoming_bitrate_initialized
    /\ history # <<>> =>
           /\ incoming_bitrate.origin_ms # None
           /\ incoming_bitrate.total.count >= 1
           /\ incoming_bitrate.total.value >= call.payload_size
           /\ BucketOfCall.count >= 1
           /\ BucketOfCall.value >= call.payload_size
           /\ call.reset => incoming_bitrate.total = RateBucket(1, call.payload_size)

\* an instance fed from construction has reset its counter a second time,
\* after a rate() that returned a value
C22_Witness ==
    /\ FreshRun
    /\ Len(history) >= 3
    /\ call.reset
    /\ \E i \in 2 .. Len(history) - 1 : history[i].rate # None
    /\ incoming_bitrate.total = RateBucket(1, call.payload_size)

\* the step is an add() call on an instance that has had a packet before
LaterAdd == fed > 0 /\ fed' = fed + 1

\* the time between the packet of the step and the packet before it
Gap == call'.arrival_time_ms - call.arrival_time_ms

\* the count, and the value, of the buckets origin_index + lo .. origin_index + hi
\* of the counter before the step that hold a millisecond of the window that
\* ends at the packet of the step
RECURSIVE KeptCount(_, _)
KeptCount(lo, hi) ==
    IF lo > hi THEN 0
    ELSE IF lo = hi
    THEN IF incoming_bitrate.origin_ms + lo >= call'.arrival_time_ms - WINDOW_SIZE + 1
         THEN incoming_bitrate.buckets[(incoming_bitrate.origin_index + lo)
                                           % WINDOW_SIZE].count
         ELSE 0
    ELSE KeptCount(lo, (lo + hi) \div 2) + KeptCount((lo + hi) \div 2 + 1, hi)

RECURSIVE KeptValue(_, _)
KeptValue(lo, hi) ==
    IF lo > hi THEN 0
    ELSE IF lo = hi
    THEN IF incoming_bitrate.origin_ms + lo >= call'.arrival_time_ms - WINDOW_SIZE + 1
         THEN incoming_bitrate.buckets[(incoming_bitrate.origin_index + lo)
                                           % WINDOW_SIZE].value
         ELSE 0
    ELSE KeptValue(lo, (lo + hi) \div 2) + KeptValue((lo + hi) \div 2 + 1, hi)

\* C23: with non-decreasing arrival times, while incoming_bitrate_initialized
\* is set from a rate() call that returned a value, an add() resets the
\* counter if and only if its packet arrives window_size (1000 ms) or more
\* after the packet before it; after a gap of 999 ms or less the counter is not
\* reset and holds every sample of the window that ends at the new packet,
\* and the new packet.
C23_ResetOnlyAfterAWindow ==
    [][LaterAdd =>
          /\ incoming_bitrate_initialized => (call'.reset <=> Gap >= WINDOW_SIZE)
          /\ Gap <= WINDOW_SIZE - 1 =>
                 /\ ~call'.reset
                 /\ incoming_bitrate'.total.count = KeptCount(0, WINDOW_SIZE - 1) + 1
                 /\ incoming_bitrate'.total.value
                        = KeptValue(0, WINDOW_SIZE - 1) + call'.payload_size]_vars

\* the run holds a packet that came 999 ms after the one before it, got a rate
\* and left the counter alone, and a packet that came 1000 ms after the one
\* before it and reset the counter
C23_Witness ==
    /\ \E i \in 2 .. Len(history) :
          /\ history[i].arrival_time_ms - history[i - 1].arrival_time_ms
                 = WINDOW_SIZE - 1
          /\ history[i].rate # None
          /\ ~history[i].reset
    /\ \E j \in 2 .. Len(history) :
          /\ history[j].arrival_time_ms - history[j - 1].arrival_time_ms = WINDOW_SIZE
          /\ history[j].reset
    /\ incoming_bitrate.total.count >= 1

====
